---- MODULE Spec2Model ----
(***************************************************************************)
(* Model of the Intervals.icu MCP server: the request mediator             *)
(* (make_intervals_request), the activity listing with its single          *)
(* backfill round (get_activities and helpers) and tool handlers built on  *)
(* the mediator.  A tool call suspends only at the awaits of the GET, so   *)
(* every action runs a handler from one await to the next.                 *)
(***************************************************************************)
EXTENDS Integers, Sequences, FiniteSets, TLC

VARIABLES
    calls,      \* per tool call: arguments, locals, position, return value
    API_KEY,    \* module-level default key
    ATHLETE_ID, \* module-level default athlete
    now,        \* the day datetime.now() reads, as a day number
    httpx_client, \* the module-level AsyncClient: how often aclose() ran
    lifespan,   \* the lifespan context manager: its position, the exception
                \* that ended its body
    probe       \* one application of a helper function: argument and value

vars == <<calls, API_KEY, ATHLETE_ID, now, httpx_client, lifespan, probe>>

(***************************************************************************)
(* Bounds                                                                  *)
(***************************************************************************)
MaxLimit == 2       \* largest value of the limit argument
MaxItems == 2       \* longest JSON list a response carries

Calls == {"c1", "c2"}   \* the tool calls the framework may dispatch

(***************************************************************************)
(* Python values.  Optional[x] is a sequence of length <= 1.  A JSON value *)
(* is a record: t its type, s the text of a scalar, e the elements of a    *)
(* list or the values of a mapping, ks the keys of a mapping in insertion  *)
(* order.                                                                  *)
(***************************************************************************)
None == <<>>
Some(x) == <<x>>

JNull == [t |-> "null", s |-> "None", ks |-> <<>>, e |-> <<>>]
JBool(b) == [t |-> "bool", s |-> IF b THEN "True" ELSE "False", ks |-> <<>>, e |-> <<>>]
JNum(n) == [t |-> "num", s |-> ToString(n), ks |-> <<>>, e |-> <<>>]
JStr(x) == [t |-> "str", s |-> x, ks |-> <<>>, e |-> <<>>]
JList(es) == [t |-> "list", s |-> "", ks |-> <<>>, e |-> es]
JMap(keys, vals) == [t |-> "map", s |-> "", ks |-> keys, e |-> vals]

IsDict(v) == v.t = "map"
IsList(v) == v.t = "list"
IsStr(v) == v.t = "str"

\* key in d
HasKey(d, k) == \E i \in 1..Len(d.ks) : d.ks[i] = k

\* d.get(k, default)
Get(d, k, default) ==
    IF HasKey(d, k)
    THEN d.e[CHOOSE i \in 1..Len(d.ks) : d.ks[i] = k]
    ELSE default

\* bool(v)
Truthy(v) ==
    CASE v.t = "null" -> FALSE
      [] v.t = "bool" -> v.s = "True"
      [] v.t = "num" -> v.s # "0"
      [] v.t = "str" -> v.s # ""
      [] v.t = "list" -> v.e # <<>>
      [] v.t = "map" -> v.ks # <<>>

\* str(v) as an f-string interpolates it
PyStr(v) ==
    CASE v.t = "list" -> "[...]"
      [] v.t = "map" -> "{...}"
      [] OTHER -> v.s

\* [x for x in s if Test(x)]
RECURSIVE SelectDicts(_)
SelectDicts(s) ==
    IF s = <<>> THEN <<>>
    ELSE (IF IsDict(Head(s)) THEN <<Head(s)>> ELSE <<>>) \o SelectDicts(Tail(s))

\* s[:n] for n >= 0
Take(s, n) == SubSeq(s, 1, IF n < Len(s) THEN n ELSE Len(s))

(***************************************************************************)
(* The HTTP transport: what one GET on the shared client can do.           *)
(***************************************************************************)
\* exception classes the mediator names, with their base class
ExcBase(cls) ==
    CASE cls = "ReadTimeout" -> "TimeoutException"
      [] cls = "TimeoutException" -> "TransportError"
      [] cls = "ConnectError" -> "TransportError"
      [] cls = "TransportError" -> "RequestError"
      [] cls = "TooManyRedirects" -> "RequestError"
      [] cls = "RequestError" -> "HTTPError"
      [] cls = "HTTPStatusError" -> "HTTPError"
      [] cls = "JSONDecodeError" -> "ValueError"
      [] OTHER -> "Exception"

\* isinstance(exc, cls), exc given by its class name
RECURSIVE IsInstance(_, _)
IsInstance(exc, cls) ==
    IF exc = cls THEN TRUE
    ELSE IF exc = "Exception" THEN FALSE
    ELSE IsInstance(ExcBase(exc), cls)

\* one GET: it raises exc (msg its text), or it returns a response with a
\* status and a body; parses tells whether json.loads accepts the body's
\* text and data is what it then returns
Raises(exc, msg) ==
    [exc |-> exc, msg |-> msg, status |-> 0, text |-> "", parses |-> FALSE, data |-> JNull]
Response(status, text, parses, data) ==
    [exc |-> "none", msg |-> "", status |-> status, text |-> text, parses |-> parses, data |-> data]

\* json.dumps(v): the text of a body that carries v
RECURSIVE Dumps(_)
RECURSIVE DumpsItems(_, _)
DumpsItems(keys, vals) ==
    IF vals = <<>> THEN ""
    ELSE (IF keys = <<>> THEN "" ELSE "\"" \o Head(keys) \o "\": ")
         \o Dumps(Head(vals))
         \o (IF Len(vals) > 1 THEN ", " ELSE "")
         \o DumpsItems(IF keys = <<>> THEN <<>> ELSE Tail(keys), Tail(vals))
Dumps(v) ==
    CASE v.t = "null" -> "null"
      [] v.t = "bool" -> (IF v.s = "True" THEN "true" ELSE "false")
      [] v.t = "num" -> v.s
      [] v.t = "str" -> "\"" \o v.s \o "\""
      [] v.t = "list" -> "[" \o DumpsItems(<<>>, v.e) \o "]"
      [] v.t = "map" -> "{" \o DumpsItems(v.ks, v.e) \o "}"

JsonBody(status, v) == Response(status, Dumps(v), TRUE, v)

(***************************************************************************)
(* make_intervals_request                                                  *)
(***************************************************************************)
INTERVALS_API_BASE_URL == "https://intervals.icu/api/v1"

\* BuildRequest with key_to_use = api_key or API_KEY: an empty override
\* gives way to the default key
BuildRequest_KeyOrDefault(url, api_key, params) ==
    LET key_to_use == IF api_key # None /\ api_key[1] # "" THEN api_key[1] ELSE API_KEY
    IN  [url |-> INTERVALS_API_BASE_URL \o url,
         params |-> params,
         auth |-> <<"API_KEY", key_to_use>>,
         timeout |-> 30]

\* what the mediator hands to httpx_client.get
BuildRequest(url, api_key, params) ==
    LET key_to_use == IF api_key # None THEN api_key[1] ELSE API_KEY
    IN  [url |-> INTERVALS_API_BASE_URL \o url,
         params |-> params,
         auth |-> <<"API_KEY", key_to_use>>,
         timeout |-> 30]

\* HTTPStatus(code) is defined (a registered status)
IsHTTPStatus(code) == code \in {200, 204, 400, 401, 403, 404, 418, 422, 429, 500, 502, 503}

\* HTTPStatus(code).phrase for the statuses of error_messages
Phrase(code) ==
    CASE code = 401 -> "Unauthorized"
      [] code = 403 -> "Forbidden"
      [] code = 404 -> "Not Found"
      [] code = 422 -> "Unprocessable Entity"
      [] code = 429 -> "Too Many Requests"
      [] code = 500 -> "Internal Server Error"
      [] code = 503 -> "Service Unavailable"
      [] OTHER -> ""

\* the text error_messages has after "<code> <phrase>: "
Advice(code) ==
    CASE code = 401 -> "Please check your API key."
      [] code = 403 -> "You may not have permission to access this resource."
      [] code = 404 -> "The requested endpoint or ID doesn't exist."
      [] code = 422 -> "The server couldn't process the request (invalid parameters or unsupported operation)."
      [] code = 429 -> "Too many requests in a short time period."
      [] code = 500 -> "The Intervals.icu server encountered an internal error."
      [] code = 503 -> "The Intervals.icu server might be down or undergoing maintenance."
      [] OTHER -> ""

ListedStatuses == {401, 403, 404, 422, 429, 500, 503}

\* CustomMessage whose error_messages hold the advice alone, without the
\* "<code> <phrase>: " in front of it
CustomMessage_AdviceOnly(error_code, error_text) ==
    IF IsHTTPStatus(error_code) /\ error_code \in ListedStatuses
    THEN Advice(error_code)
    ELSE error_text

\* CustomMessage without the except ValueError clause: the text of the
\* ValueError of HTTPStatus(error_code) becomes the message
CustomMessage_NoValueErrorFallback(error_code, error_text) ==
    IF IsHTTPStatus(error_code) /\ error_code \in ListedStatuses
    THEN ToString(error_code) \o " " \o Phrase(error_code) \o ": " \o Advice(error_code)
    ELSE IF IsHTTPStatus(error_code) THEN error_text
    ELSE ToString(error_code) \o " is not a valid HTTPStatus"

\* error_messages.get(status, error_text), with the ValueError fallback
CustomMessage(error_code, error_text) ==
    IF IsHTTPStatus(error_code) /\ error_code \in ListedStatuses
    THEN ToString(error_code) \o " " \o Phrase(error_code) \o ": " \o Advice(error_code)
    ELSE error_text

\* response.raise_for_status() raises HTTPStatusError
RaisesForStatus(status) == status >= 400

\* the dict of an error return; status_code = None when the dict has none
ErrorDict(status_code, message) ==
    IF status_code = None
    THEN JMap(<<"error", "message">>, <<JBool(TRUE), JStr(message)>>)
    ELSE JMap(<<"error", "status_code", "message">>,
              <<JBool(TRUE), JNum(status_code[1]), JStr(message)>>)

Returned(v) == [exc |-> "none", value |-> v]
Propagated(exc) == [exc |-> exc, value |-> JNull]

\* TryBlock with raise_for_status() called before response.json()
TryBlock_StatusFirst(o) ==
    IF o.exc # "none" THEN Propagated(o.exc)
    ELSE IF RaisesForStatus(o.status) THEN Propagated("HTTPStatusError")
    ELSE IF o.text # "" /\ ~o.parses
    THEN Returned(ErrorDict(None, "Invalid JSON in response"))
    ELSE Returned(IF o.text # "" THEN o.data ELSE JMap(<<>>, <<>>))

\* TryBlock with the response's status put into the invalid-JSON error dict
TryBlock_InvalidJsonWithStatus(o) ==
    IF o.exc # "none" THEN Propagated(o.exc)
    ELSE IF o.text # "" /\ ~o.parses
    THEN Returned(ErrorDict(Some(o.status), "Invalid JSON in response"))
    ELSE IF RaisesForStatus(o.status) THEN Propagated("HTTPStatusError")
    ELSE Returned(IF o.text # "" THEN o.data ELSE JMap(<<>>, <<>>))

\* TryBlock with response.json() called on every body, the empty one too
TryBlock_ParseEmpty(o) ==
    IF o.exc # "none" THEN Propagated(o.exc)
    ELSE IF ~o.parses
    THEN Returned(ErrorDict(None, "Invalid JSON in response"))
    ELSE IF RaisesForStatus(o.status) THEN Propagated("HTTPStatusError")
    ELSE Returned(o.data)

\* the try block (lines 131-141): the value it returns, or the exception
\* that leaves it
TryBlock(o) ==
    IF o.exc # "none" THEN Propagated(o.exc)
    ELSE IF o.text # "" /\ ~o.parses
    THEN Returned(ErrorDict(None, "Invalid JSON in response"))
    ELSE IF RaisesForStatus(o.status) THEN Propagated("HTTPStatusError")
    ELSE Returned(IF o.text # "" THEN o.data ELSE JMap(<<>>, <<>>))

\* ExceptClauses with only the clause for httpx.HTTPStatusError
ExceptClauses_OnlyStatusError(exc, o) ==
    IF IsInstance(exc, "HTTPStatusError")
    THEN Returned(ErrorDict(Some(o.status), CustomMessage(o.status, o.text)))
    ELSE Propagated(exc)

\* ExceptClauses without the clause for httpx.RequestError
ExceptClauses_NoRequestErrorClause(exc, o) ==
    IF IsInstance(exc, "HTTPStatusError")
    THEN Returned(ErrorDict(Some(o.status), CustomMessage(o.status, o.text)))
    ELSE IF IsInstance(exc, "HTTPError")
    THEN Returned(ErrorDict(None, "HTTP client error: " \o o.msg))
    ELSE Propagated(exc)

\* the except clauses (lines 142-173), tried in order
ExceptClauses(exc, o) ==
    IF IsInstance(exc, "HTTPStatusError")
    THEN Returned(ErrorDict(Some(o.status), CustomMessage(o.status, o.text)))
    ELSE IF IsInstance(exc, "RequestError")
    THEN Returned(ErrorDict(None, "Request error: " \o o.msg))
    ELSE IF IsInstance(exc, "HTTPError")
    THEN Returned(ErrorDict(None, "HTTP client error: " \o o.msg))
    ELSE Propagated(exc)

\* the outcome of make_intervals_request when its GET does o
make_intervals_request(o) ==
    LET r == TryBlock(o)
    IN  IF r.exc = "none" THEN r ELSE ExceptClauses(r.exc, o)

(***************************************************************************)
(* Dates.  A datetime is a day number (days since December 31 of the year  *)
(* before FirstYear, negative before that); a "%Y-%m-%d" string is         *)
(* <<year, month, day>> and stands for the text strftime writes: month and *)
(* day with two digits, the year without padding (the strftime of glibc    *)
(* writes the year 999 as "999"), which is the text of four digits for     *)
(* every year from 1000 on.                                                *)
(***************************************************************************)
FirstYear == 2022
LastYear == 2025

\* the years a datetime of the model may fall in: those of the runs and the
\* two around the change from three to four digits
Years == (FirstYear..LastYear) \cup {999, 1000}

IsLeap(y) == (y % 4 = 0 /\ y % 100 # 0) \/ y % 400 = 0

DaysInMonth(y, m) ==
    IF m = 2 THEN (IF IsLeap(y) THEN 29 ELSE 28)
    ELSE IF m \in {4, 6, 9, 11} THEN 30 ELSE 31

\* the days of the year y before the first day of its month m
DaysBeforeMonth(y, m) ==
    <<0, 31, 59, 90, 120, 151, 181, 212, 243, 273, 304, 334>>[m]
    + (IF m > 2 /\ IsLeap(y) THEN 1 ELSE 0)

\* the number of leap years before the year y
LeapsBefore(y) == (y - 1) \div 4 - (y - 1) \div 100 + (y - 1) \div 400

\* the days from January 1 of FirstYear to January 1 of the year y
DaysBeforeYear(y) == (y - FirstYear) * 365 + LeapsBefore(y) - LeapsBefore(FirstYear)

\* datetime.fromisoformat(s) / datetime.strptime(s, "%Y-%m-%d")
fromisoformat(s) == DaysBeforeYear(s[1]) + DaysBeforeMonth(s[1], s[2]) + s[3]

\* dt.strftime("%Y-%m-%d")
strftime(n) ==
    LET y == CHOOSE yy \in Years :
                 DaysBeforeYear(yy) < n /\ n <= DaysBeforeYear(yy) + (IF IsLeap(yy) THEN 366 ELSE 365)
        r == n - DaysBeforeYear(y)
        m == CHOOSE mm \in 1..12 :
                 DaysBeforeMonth(y, mm) < r /\ r <= DaysBeforeMonth(y, mm) + DaysInMonth(y, mm)
    IN  <<y, m, r - DaysBeforeMonth(y, m)>>

\* the decimal digits of n
RECURSIVE Digits(_)
Digits(n) == IF n < 10 THEN <<n>> ELSE Append(Digits(n \div 10), n % 10)

\* the characters of a "%Y-%m-%d" string, a digit as its value and "-",
\* which sorts before every digit, as -1
DateChars(s) ==
    Digits(s[1]) \o <<-1, s[2] \div 10, s[2] % 10, -1, s[3] \div 10, s[3] % 10>>

\* a >= b on two strings given by their characters
RECURSIVE SeqGeq(_, _)
SeqGeq(a, b) ==
    IF b = <<>> THEN TRUE
    ELSE IF a = <<>> THEN FALSE
    ELSE IF Head(a) # Head(b) THEN Head(a) > Head(b)
    ELSE SeqGeq(Tail(a), Tail(b))

\* a >= b on two "%Y-%m-%d" strings
StrGeq(a, b) == SeqGeq(DateChars(a), DateChars(b))

\* the text of a "%Y-%m-%d" string
Pad2(n) == IF n < 10 THEN "0" \o ToString(n) ELSE ToString(n)
DateText(s) == ToString(s[1]) \o "-" \o Pad2(s[2]) \o "-" \o Pad2(s[3])

(***************************************************************************)
(* Helpers of the activity listing                                         *)
(***************************************************************************)
\* the first list among the values of a dict, as a sequence of length <= 1
RECURSIVE FirstList(_)
FirstList(vals) ==
    IF vals = <<>> THEN <<>>
    ELSE IF IsList(Head(vals)) THEN <<Head(vals)>>
    ELSE FirstList(Tail(vals))

\* _parse_activities_from_result without lines 192-193: a dict is never
\* taken as a single activity
_parse_activities_from_result_NoMarkers(result) ==
    IF IsList(result) THEN SelectDicts(result.e)
    ELSE IF IsDict(result)
    THEN LET found == FirstList(result.e)
         IN  IF found = <<>> THEN <<>> ELSE SelectDicts(found[1].e)
    ELSE <<>>

_parse_activities_from_result(result) ==
    IF IsList(result) THEN SelectDicts(result.e)
    ELSE IF IsDict(result)
    THEN LET found == FirstList(result.e)
             activities == IF found = <<>> THEN <<>> ELSE SelectDicts(found[1].e)
         IN  IF activities = <<>> /\ \E key \in {"name", "startTime", "distance"} : HasKey(result, key)
             THEN <<result>>
             ELSE activities
    ELSE <<>>

\* IsNamed that asks only for a name key whose value is not "Unnamed"
IsNamed_AnyPresentName(activity) ==
    /\ HasKey(activity, "name")
    /\ Get(activity, "name", JNull) # JStr("Unnamed")

\* activity.get("name") and activity.get("name") != "Unnamed"
IsNamed(activity) ==
    /\ Truthy(Get(activity, "name", JNull))
    /\ Get(activity, "name", JNull) # JStr("Unnamed")

\* the list comprehension of _filter_named_activities: activity.get raises
\* AttributeError on an element that is no dict
RECURSIVE KeepNamed(_)
KeepNamed(s) ==
    IF s = <<>> THEN <<>>
    ELSE (IF IsNamed(Head(s)) THEN <<Head(s)>> ELSE <<>>) \o KeepNamed(Tail(s))

_filter_named_activities(activities) ==
    IF \E i \in 1..Len(activities) : ~IsDict(activities[i])
    THEN [exc |-> "AttributeError", value |-> <<>>]
    ELSE [exc |-> "none", value |-> KeepNamed(activities)]

\* the two fields of format_activity_summary that identify the activity
format_activity_summary(activity) ==
    [name |-> PyStr(Get(activity, "name", JStr("Unnamed"))),
     id |-> PyStr(Get(activity, "id", JStr("N/A"))),
     date |-> ""]

RECURSIVE MapSummary(_)
MapSummary(s) ==
    IF s = <<>> THEN <<>>
    ELSE <<format_activity_summary(Head(s))>> \o MapSummary(Tail(s))

\* a returned string: its fixed text and the summaries appended to it
Str(text) == [kind |-> "str", text |-> text, items |-> <<>>, json |-> JNull]
StrItems(text, items) == [kind |-> "str", text |-> text, items |-> items, json |-> JNull]
Json(v) == [kind |-> "json", text |-> "", items |-> <<>>, json |-> v]
NoReturn == [kind |-> "none", text |-> "", items |-> <<>>, json |-> JNull]

_format_activities_response(activities, athlete_id, include_unnamed) ==
    IF activities = <<>>
    THEN IF include_unnamed
         THEN Str("No valid activities found for athlete " \o athlete_id
                  \o " in the specified date range.")
         ELSE Str("No named activities found for athlete " \o athlete_id
                  \o " in the specified date range. Try with include_unnamed=True to see all activities.")
    ELSE StrItems("Activities:\n\n", MapSummary(activities))

\* isinstance(result, dict) and "error" in result
IsErrorResult(result) == IsDict(result) /\ HasKey(result, "error")

(***************************************************************************)
(* Tool calls                                                              *)
(***************************************************************************)
NoDate == <<0, 0, 0>>

Params(oldest, newest, limit) == [oldest |-> oldest, newest |-> newest, limit |-> limit]

\* a call the framework has not dispatched yet
Idle ==
    [tool |-> "none", pc |-> "idle",
     athlete_id |-> "", api_key |-> None,
     start_date |-> NoDate, end_date |-> NoDate,
     limit |-> 0, include_unnamed |-> FALSE, api_limit |-> 0,
     activities |-> <<>>,
     events |-> <<>>, i |-> 0, races_summary |-> <<>>,
     requests |-> <<>>,     \* what each make_intervals_request call hands to get
     attempts |-> 0,        \* how many times httpx_client.get has been called
     outcomes |-> <<>>,     \* what each GET did
     results |-> <<>>,      \* what make_intervals_request returned for each
     ret |-> NoReturn, exc |-> "none"]

\* await make_intervals_request(url, api_key, params): the GET is issued and
\* the call suspends at position pc
Send(call, pc, url, params) ==
    [call EXCEPT !.pc = pc,
                 !.requests = Append(@, BuildRequest(url, call.api_key, params)),
                 !.attempts = @ + 1]

\* Received with a second httpx_client.get after a GET that raised or that
\* was answered 429 or 5xx
Received_Retry(call, o) ==
    [call EXCEPT !.outcomes = Append(@, o),
                 !.results = Append(@, make_intervals_request(o).value),
                 !.attempts = IF o.exc # "none" \/ o.status = 429 \/ o.status >= 500
                              THEN @ + 1 ELSE @]

\* the awaited GET did o
Received(call, o) ==
    [call EXCEPT !.outcomes = Append(@, o),
                 !.results = Append(@, make_intervals_request(o).value)]

\* return value / raise exc, to the hosting framework
Return(call, value) == [call EXCEPT !.pc = "done", !.ret = value]
Raise(call, exc) == [call EXCEPT !.pc = "done", !.exc = exc]

NoAthleteId ==
    Str("Error: No athlete ID provided and no default ATHLETE_ID found in environment variables.")

\* athlete_id if athlete_id is not None else ATHLETE_ID
AthleteIdToUse(athlete_id) == IF athlete_id # None THEN athlete_id[1] ELSE ATHLETE_ID

(***************************************************************************)
(* get_activities                                                          *)
(***************************************************************************)
\* get_activities_begin that returns at once, without a request, when
\* start_date is later than end_date
get_activities_begin_ShortCircuit(call, athlete_id, api_key, start_date, end_date, limit, include_unnamed) ==
    LET athlete_id_to_use == AthleteIdToUse(athlete_id)
        sd == IF start_date = None THEN strftime(now - 30) ELSE start_date[1]
        ed == IF end_date = None THEN strftime(now) ELSE end_date[1]
        api_limit == IF ~include_unnamed THEN limit * 3 ELSE limit
        c1 == [call EXCEPT !.tool = "get_activities",
                           !.athlete_id = athlete_id_to_use, !.api_key = api_key,
                           !.start_date = sd, !.end_date = ed,
                           !.limit = limit, !.include_unnamed = include_unnamed,
                           !.api_limit = api_limit]
    IN  IF athlete_id_to_use = "" THEN Return(c1, NoAthleteId)
        ELSE IF ~StrGeq(ed, sd)
        THEN Return(c1, Str("No activities found for athlete " \o athlete_id_to_use
                            \o " in the specified date range."))
        ELSE Send(c1, "primary", "/athlete/" \o athlete_id_to_use \o "/activities",
                  Params(Some(sd), Some(ed), Some(api_limit)))

\* lines 280-298: up to the await of the primary request
get_activities_begin(call, athlete_id, api_key, start_date, end_date, limit, include_unnamed) ==
    LET athlete_id_to_use == AthleteIdToUse(athlete_id)
        sd == IF start_date = None THEN strftime(now - 30) ELSE start_date[1]
        ed == IF end_date = None THEN strftime(now) ELSE end_date[1]
        api_limit == IF ~include_unnamed THEN limit * 3 ELSE limit
        c1 == [call EXCEPT !.tool = "get_activities",
                           !.athlete_id = athlete_id_to_use, !.api_key = api_key,
                           !.start_date = sd, !.end_date = ed,
                           !.limit = limit, !.include_unnamed = include_unnamed,
                           !.api_limit = api_limit]
    IN  IF athlete_id_to_use = "" THEN Return(c1, NoAthleteId)
        ELSE Send(c1, "primary", "/athlete/" \o athlete_id_to_use \o "/activities",
                  Params(Some(sd), Some(ed), Some(api_limit)))

\* get_activities_finish without the slice activities[:limit]
get_activities_finish_NoTruncate(call, activities) ==
    Return([call EXCEPT !.activities = activities],
           _format_activities_response(activities, call.athlete_id, call.include_unnamed))

\* lines 325-328: truncate, format, return
get_activities_finish(call, activities) ==
    LET limited == Take(activities, call.limit)
    IN  Return([call EXCEPT !.activities = limited],
               _format_activities_response(limited, call.athlete_id, call.include_unnamed))

\* fetch_more_begin without the test of lines 218-219
fetch_more_begin_NoSkip(call, activities) ==
    LET oldest_date == fromisoformat(call.start_date)
        older_start_date == strftime(oldest_date - 60)
        older_end_date == strftime(oldest_date - 1)
        c1 == [call EXCEPT !.activities = activities]
    IN  Send(c1, "backfill", "/athlete/" \o call.athlete_id \o "/activities",
             Params(Some(older_start_date), Some(older_end_date), Some(call.api_limit)))

\* fetch_more_begin whose older window ends on the day the primary one begins
fetch_more_begin_UpToStart(call, activities) ==
    LET oldest_date == fromisoformat(call.start_date)
        older_start_date == strftime(oldest_date - 60)
        older_end_date == strftime(oldest_date)
        c1 == [call EXCEPT !.activities = activities]
    IN  IF StrGeq(older_start_date, older_end_date)
        THEN get_activities_finish(c1, activities)
        ELSE Send(c1, "backfill", "/athlete/" \o call.athlete_id \o "/activities",
                  Params(Some(older_start_date), Some(older_end_date), Some(call.api_limit)))

\* fetch_more_begin that asks for limit records, not for api_limit
fetch_more_begin_CallerLimit(call, activities) ==
    LET oldest_date == fromisoformat(call.start_date)
        older_start_date == strftime(oldest_date - 60)
        older_end_date == strftime(oldest_date - 1)
        c1 == [call EXCEPT !.activities = activities]
    IN  IF StrGeq(older_start_date, older_end_date)
        THEN get_activities_finish(c1, activities)
        ELSE Send(c1, "backfill", "/athlete/" \o call.athlete_id \o "/activities",
                  Params(Some(older_start_date), Some(older_end_date), Some(call.limit)))

\* _fetch_more_activities up to its await (lines 214-230); the round is
\* skipped when the older window is empty
fetch_more_begin(call, activities) ==
    LET oldest_date == fromisoformat(call.start_date)
        older_start_date == strftime(oldest_date - 60)
        older_end_date == strftime(oldest_date - 1)
        c1 == [call EXCEPT !.activities = activities]
    IN  IF StrGeq(older_start_date, older_end_date)
        THEN get_activities_finish(c1, activities)
        ELSE Send(c1, "backfill", "/athlete/" \o call.athlete_id \o "/activities",
                  Params(Some(older_start_date), Some(older_end_date), Some(call.api_limit)))

\* get_activities_primary without the check for an error result
get_activities_primary_NoErrorCheck(call, r) ==
    LET result == r.value
        activities == _parse_activities_from_result(result)
        named == _filter_named_activities(activities)
    IN  IF r.exc # "none" THEN Raise(call, r.exc)
        ELSE IF ~Truthy(result)
        THEN Return(call, Str("No activities found for athlete " \o call.athlete_id
                              \o " in the specified date range."))
        ELSE IF activities = <<>>
        THEN Return(call, Str("No valid activities found for athlete " \o call.athlete_id
                              \o " in the specified date range."))
        ELSE IF call.include_unnamed THEN get_activities_finish(call, activities)
        ELSE IF named.exc # "none" THEN Raise(call, named.exc)
        ELSE IF Len(named.value) < call.limit THEN fetch_more_begin(call, named.value)
        ELSE get_activities_finish(call, named.value)

\* get_activities_primary that filters and backfills whatever include_unnamed is
get_activities_primary_AlwaysFilter(call, r) ==
    LET result == r.value
        activities == _parse_activities_from_result(result)
        named == _filter_named_activities(activities)
    IN  IF r.exc # "none" THEN Raise(call, r.exc)
        ELSE IF IsErrorResult(result)
        THEN Return(call, Str("Error fetching activities: "
                              \o PyStr(Get(result, "message", JStr("Unknown error")))))
        ELSE IF ~Truthy(result)
        THEN Return(call, Str("No activities found for athlete " \o call.athlete_id
                              \o " in the specified date range."))
        ELSE IF activities = <<>>
        THEN Return(call, Str("No valid activities found for athlete " \o call.athlete_id
                              \o " in the specified date range."))
        ELSE IF named.exc # "none" THEN Raise(call, named.exc)
        ELSE IF Len(named.value) < call.limit THEN fetch_more_begin(call, named.value)
        ELSE get_activities_finish(call, named.value)

\* lines 300-323: from the primary result to the return or the next await
get_activities_primary(call, r) ==
    LET result == r.value
        activities == _parse_activities_from_result(result)
        named == _filter_named_activities(activities)
    IN  IF r.exc # "none" THEN Raise(call, r.exc)
        ELSE IF IsErrorResult(result)
        THEN Return(call, Str("Error fetching activities: "
                              \o PyStr(Get(result, "message", JStr("Unknown error")))))
        ELSE IF ~Truthy(result)
        THEN Return(call, Str("No activities found for athlete " \o call.athlete_id
                              \o " in the specified date range."))
        ELSE IF activities = <<>>
        THEN Return(call, Str("No valid activities found for athlete " \o call.athlete_id
                              \o " in the specified date range."))
        ELSE IF call.include_unnamed THEN get_activities_finish(call, activities)
        ELSE IF named.exc # "none" THEN Raise(call, named.exc)
        ELSE IF Len(named.value) < call.limit THEN fetch_more_begin(call, named.value)
        ELSE get_activities_finish(call, named.value)

\* get_activities_backfill that asks once more when the round brought no list
get_activities_backfill_Retry(call, r) ==
    LET more_result == r.value
        more == IF IsList(more_result)
                THEN _filter_named_activities(more_result.e)
                ELSE [exc |-> "none", value |-> <<>>]
    IN  IF r.exc # "none" THEN Raise(call, r.exc)
        ELSE IF more.exc # "none" THEN Raise(call, more.exc)
        ELSE IF ~IsList(more_result) /\ Len(call.requests) < 3
        THEN Send(call, "backfill", "/athlete/" \o call.athlete_id \o "/activities",
                  call.requests[2].params)
        ELSE get_activities_finish(call, call.activities \o more.value)

\* get_activities_backfill that reports an error result of the round
get_activities_backfill_Propagate(call, r) ==
    LET more_result == r.value
        more == IF IsList(more_result)
                THEN _filter_named_activities(more_result.e)
                ELSE [exc |-> "none", value |-> <<>>]
    IN  IF r.exc # "none" THEN Raise(call, r.exc)
        ELSE IF IsErrorResult(more_result)
        THEN Return(call, Str("Error fetching activities: "
                              \o PyStr(Get(more_result, "message", JStr("Unknown error")))))
        ELSE IF more.exc # "none" THEN Raise(call, more.exc)
        ELSE get_activities_finish(call, call.activities \o more.value)

\* get_activities_backfill that leaves out the records of the round that the
\* primary result already had
get_activities_backfill_Dedup(call, r) ==
    LET more_result == r.value
        more == IF IsList(more_result)
                THEN _filter_named_activities(more_result.e)
                ELSE [exc |-> "none", value |-> <<>>]
        seen == {call.activities[i] : i \in 1..Len(call.activities)}
    IN  IF r.exc # "none" THEN Raise(call, r.exc)
        ELSE IF more.exc # "none" THEN Raise(call, more.exc)
        ELSE get_activities_finish(call,
                 call.activities \o SelectSeq(more.value, LAMBDA a : a \notin seen))

\* lines 232-234 and 323-328: from the backfill result to the return
get_activities_backfill(call, r) ==
    LET more_result == r.value
        more == IF IsList(more_result)
                THEN _filter_named_activities(more_result.e)
                ELSE [exc |-> "none", value |-> <<>>]
    IN  IF r.exc # "none" THEN Raise(call, r.exc)
        ELSE IF more.exc # "none" THEN Raise(call, more.exc)
        ELSE get_activities_finish(call, call.activities \o more.value)

(***************************************************************************)
(* get_wellness_data                                                       *)
(***************************************************************************)
\* the exception format_wellness_entry(entry) raises, "none" if it returns
format_wellness_entry_exc(entry) ==
    LET sleepSecs == Get(entry, "sleepSecs", JNull)
        phase == Get(entry, "menstrualPhase", JStr("N/A"))
        predicted == Get(entry, "menstrualPhasePredicted", JStr("N/A"))
        sportInfo == Get(entry, "sportInfo", JNull)
    IN  IF ~IsDict(entry) THEN "AttributeError"
        ELSE IF sleepSecs.t \notin {"null", "num", "bool"} THEN "TypeError"
        ELSE IF phase # JStr("N/A") /\ phase.t \notin {"null", "str"} THEN "AttributeError"
        ELSE IF predicted # JStr("N/A") /\ predicted.t \notin {"null", "str"} THEN "AttributeError"
        ELSE IF Truthy(sportInfo) /\ sportInfo.t \in {"num", "bool"} THEN "TypeError"
        ELSE "none"

\* the two fields of format_wellness_entry that identify the entry
format_wellness_entry(entry) ==
    [name |-> "",
     id |-> PyStr(Get(entry, "id", JStr("N/A"))),
     date |-> PyStr(Get(entry, "date", JStr("Unknown date")))]

\* lines 575-576: data["date"] = date_str when data is a dict without one
WithDate(data, date_str) ==
    IF IsDict(data) /\ ~HasKey(data, "date")
    THEN JMap(Append(data.ks, "date"), Append(data.e, JStr(date_str)))
    ELSE data

\* the entries the two loops of lines 572-581 hand to format_wellness_entry
RECURSIVE DatedValues(_, _)
DatedValues(keys, vals) ==
    IF vals = <<>> THEN <<>>
    ELSE <<WithDate(Head(vals), Head(keys))>> \o DatedValues(Tail(keys), Tail(vals))

WellnessEntries(result) ==
    IF IsDict(result) THEN DatedValues(result.ks, result.e)
    ELSE IF IsList(result) THEN SelectDicts(result.e)
    ELSE <<>>

RECURSIVE MapWellness(_)
MapWellness(s) ==
    IF s = <<>> THEN <<>>
    ELSE <<format_wellness_entry(Head(s))>> \o MapWellness(Tail(s))

\* lines 542-558
get_wellness_data_begin(call, athlete_id, api_key, start_date, end_date) ==
    LET athlete_id_to_use == AthleteIdToUse(athlete_id)
        sd == IF start_date = None THEN strftime(now - 30) ELSE start_date[1]
        ed == IF end_date = None THEN strftime(now) ELSE end_date[1]
        c1 == [call EXCEPT !.tool = "get_wellness_data",
                           !.athlete_id = athlete_id_to_use, !.api_key = api_key,
                           !.start_date = sd, !.end_date = ed]
    IN  IF athlete_id_to_use = "" THEN Return(c1, NoAthleteId)
        ELSE Send(c1, "primary", "/athlete/" \o athlete_id_to_use \o "/wellness",
                  Params(Some(sd), Some(ed), None))

\* lines 560-583
get_wellness_data_result(call, r) ==
    LET result == r.value
        entries == WellnessEntries(result)
    IN  IF r.exc # "none" THEN Raise(call, r.exc)
        ELSE IF IsErrorResult(result)
        THEN Return(call, Str("Error fetching wellness data: "
                              \o PyStr(Get(result, "message", JNull))))
        ELSE IF ~Truthy(result)
        THEN Return(call, Str("No wellness data found for athlete " \o call.athlete_id
                              \o " in the specified date range."))
        ELSE IF \E i \in 1..Len(entries) : format_wellness_entry_exc(entries[i]) # "none"
        THEN Raise(call, format_wellness_entry_exc(
                 entries[CHOOSE i \in 1..Len(entries) :
                     /\ format_wellness_entry_exc(entries[i]) # "none"
                     /\ \A j \in 1..(i - 1) : format_wellness_entry_exc(entries[j]) = "none"]))
        ELSE Return(call, StrItems("Wellness Data:\n\n", MapWellness(entries)))

(***************************************************************************)
(* get_athlete                                                             *)
(***************************************************************************)
\* lines 851-861
get_athlete_begin(call, athlete_id, api_key) ==
    LET athlete_id_to_use == AthleteIdToUse(athlete_id)
        c1 == [call EXCEPT !.tool = "get_athlete",
                           !.athlete_id = athlete_id_to_use, !.api_key = api_key]
    IN  IF athlete_id_to_use = "" THEN Return(c1, NoAthleteId)
        ELSE Send(c1, "primary", "/athlete/" \o athlete_id_to_use, Params(None, None, None))

\* lines 863-867
get_athlete_result(call, r) ==
    LET result == r.value
    IN  IF r.exc # "none" THEN Raise(call, r.exc)
        ELSE IF IsErrorResult(result)
        THEN Return(call, Str("Error fetching athlete data: "
                              \o PyStr(Get(result, "message", JStr("Unknown error")))))
        ELSE Return(call, Json(IF IsDict(result) THEN result ELSE JMap(<<>>, <<>>)))

(***************************************************************************)
(* get_races                                                               *)
(***************************************************************************)
\* category.startswith("RACE_"), over the categories of the API
StartsWithRace(category) == category \in {"RACE_A", "RACE_B", "RACE_C"}

\* the exception _format_shared_event_summary(shared_event) raises: .strip()
\* on a value that is no string, ', '.join on a value that is no list
format_shared_event_summary_exc(shared_event) ==
    IF ~Truthy(shared_event) THEN "none"
    ELSE IF ~IsStr(Get(shared_event, "description", JStr("Unknown"))) THEN "AttributeError"
    ELSE IF Get(shared_event, "types", JList(<<JStr("Unknown")>>)).t \in {"null", "num", "bool"}
    THEN "TypeError"
    ELSE IF \E k \in {"website", "location", "address", "country"} :
               ~IsStr(Get(shared_event, k, JStr("Unknown")))
    THEN "AttributeError"
    ELSE "none"

\* the fields of format_event_summary that identify the event
format_event_summary(event) ==
    [name |-> PyStr(Get(event, "name", JStr("Unnamed"))),
     id |-> PyStr(Get(event, "id", JStr("N/A"))),
     date |-> PyStr(Get(event, "start_date_local", Get(event, "date", JStr("Unknown"))))]

\* lines 626-640
get_races_begin(call, athlete_id, api_key) ==
    LET athlete_id_to_use == AthleteIdToUse(athlete_id)
        c1 == [call EXCEPT !.tool = "get_races",
                           !.athlete_id = athlete_id_to_use, !.api_key = api_key,
                           !.start_date = strftime(now), !.end_date = strftime(now + 356)]
    IN  IF athlete_id_to_use = "" THEN Return(c1, NoAthleteId)
        ELSE Send(c1, "primary", "/athlete/" \o athlete_id_to_use \o "/events",
                  Params(Some(strftime(now)), Some(strftime(now + 356)), None))

\* the loop of lines 657-671 from event i on, up to the return, the next
\* await or the first exception
RECURSIVE get_races_loop(_, _)
get_races_loop(call, i) ==
    IF i > Len(call.events)
    THEN Return([call EXCEPT !.i = i], StrItems("Races:\n\n", call.races_summary))
    ELSE LET event == call.events[i]
             category == Get(event, "category", JStr(""))
             shared_event_id == Get(event, "shared_event_id", JNull)
         IN  IF ~IsDict(event) THEN get_races_loop(call, i + 1)
             ELSE IF ~IsStr(category) THEN Raise([call EXCEPT !.i = i], "AttributeError")
             ELSE IF ~StartsWithRace(category.s) THEN get_races_loop(call, i + 1)
             ELSE IF Truthy(shared_event_id)
             THEN Send([call EXCEPT !.i = i], "shared",
                       "/shared-event/" \o PyStr(shared_event_id), Params(None, None, None))
             ELSE get_races_loop(
                      [call EXCEPT !.races_summary = Append(@, format_event_summary(event))],
                      i + 1)

\* lines 642-656
get_races_events(call, r) ==
    LET result == r.value
        events == IF IsList(result) THEN result.e ELSE <<>>
    IN  IF r.exc # "none" THEN Raise(call, r.exc)
        ELSE IF IsErrorResult(result)
        THEN Return(call, Str("Error fetching events: "
                              \o PyStr(Get(result, "message", JStr("Unknown error")))))
        ELSE IF ~Truthy(result) \/ events = <<>>
        THEN Return(call, Str("No events found for athlete " \o call.athlete_id
                              \o " in the specified date range."))
        ELSE get_races_loop([call EXCEPT !.events = events], 1)

\* lines 665-669, then the rest of the loop
get_races_shared(call, r) ==
    LET shared_event == r.value
        event == call.events[call.i]
    IN  IF r.exc # "none" THEN Raise(call, r.exc)
        ELSE IF ~IsDict(shared_event) THEN Raise(call, "AssertionError")
        ELSE IF format_shared_event_summary_exc(shared_event) # "none"
        THEN Raise(call, format_shared_event_summary_exc(shared_event))
        ELSE get_races_loop(
                 [call EXCEPT !.races_summary = Append(@, format_event_summary(event))],
                 call.i + 1)

(***************************************************************************)
(* Inputs: what the API may answer and what a client may pass              *)
(***************************************************************************)
RecRide == JMap(<<"id", "name">>, <<JNum(1), JStr("Ride")>>)
RecRun == JMap(<<"id", "name">>, <<JNum(2), JStr("Run")>>)
RecUnnamed == JMap(<<"id", "name">>, <<JNum(3), JStr("Unnamed")>>)
RecNoName == JMap(<<"id">>, <<JNum(4)>>)
RecEmptyName == JMap(<<"id", "name">>, <<JNum(5), JStr("")>>)

\* what a JSON list of a response may hold
Elems == {RecRide, RecRun, RecUnnamed, RecNoName, RecEmptyName, JStr("skip")}

ListPayloads == {JList(es) : es \in UNION {[1..k -> Elems] : k \in 0..MaxItems}}

\* payloads that are no list
OtherPayloads ==
    { JMap(<<"items", "meta">>,
           <<JList(<<RecRide, JMap(<<"notAMap">>, <<JNum(1)>>), JStr("skip")>>), JNum(1)>>),
      JMap(<<"name", "distance">>, <<JStr("Solo Ride"), JNum(500)>>),
      JMap(<<"list", "name">>, <<JList(<<>>), JStr("Solo Ride")>>),
      JMap(<<"meta">>, <<JNum(1)>>),
      JMap(<<"error">>, <<JStr("quota")>>),
      JMap(<<"error", "name">>, <<JStr("quota"), JStr("Solo Ride")>>),
      JMap(<<"2024-03-01">>, <<JMap(<<"id", "sleepSecs">>, <<JStr("w1"), JNum(27000)>>)>>),
      JMap(<<"2024-03-01">>, <<JNum(5)>>),
      JMap(<<>>, <<>>),
      JNum(5), JStr("text"), JNull }

Payloads == ListPayloads \cup OtherPayloads

ErrorStatuses == {401, 403, 404, 418, 422, 429, 500, 503, 599}

\* bodies an error response may carry: none, no JSON, JSON
ErrorResponses ==
    {Response(st, "", FALSE, JNull) : st \in ErrorStatuses}
    \cup {Response(st, "<html>Bad Gateway</html>", FALSE, JNull) : st \in ErrorStatuses}
    \cup {JsonBody(st, JMap(<<"detail">>, <<JStr("denied")>>)) : st \in ErrorStatuses}

OkResponses ==
    {JsonBody(200, v) : v \in Payloads}
    \cup {Response(200, "", FALSE, JNull), Response(200, "<html>Welcome</html>", FALSE, JNull)}

Failures ==
    { Raises("ReadTimeout", "The read operation timed out"),
      Raises("ConnectError", "All connection attempts failed"),
      Raises("TooManyRedirects", "Exceeded maximum allowed redirects.") }

\* everything one GET can do
Outcomes == OkResponses \cup ErrorResponses \cup Failures

\* what the events endpoint may list
EvRaceShared ==
    JMap(<<"id", "name", "category", "shared_event_id">>,
         <<JNum(11), JStr("Marathon"), JStr("RACE_A"), JNum(77)>>)
EvRaceLocal == JMap(<<"id", "name", "category">>, <<JNum(12), JStr("Club 10k"), JStr("RACE_B")>>)
EvWorkout == JMap(<<"id", "name", "category">>, <<JNum(13), JStr("Intervals"), JStr("WORKOUT")>>)
EvNullCategory == JMap(<<"id", "category">>, <<JNum(14), JNull>>)

EventElems == {EvRaceShared, EvRaceLocal, EvWorkout, EvNullCategory, JStr("skip")}

EventOutcomes ==
    {JsonBody(200, JList(es)) : es \in UNION {[1..k -> EventElems] : k \in 0..MaxItems}}
    \cup {JsonBody(200, JMap(<<"meta">>, <<JNum(1)>>)), Response(200, "", FALSE, JNull),
          Response(404, "", FALSE, JNull), Raises("ReadTimeout", "The read operation timed out")}

\* what the shared-event endpoint may answer
SharedEventOutcomes ==
    { JsonBody(200, JMap(<<"description", "types">>,
                         <<JStr("City race"), JList(<<JStr("Run")>>)>>)),
      JsonBody(200, JMap(<<"description">>, <<JNull>>)),
      JsonBody(200, JList(<<RecRide>>)),
      Response(200, "", FALSE, JNull),
      Response(404, "", FALSE, JNull),
      Raises("ReadTimeout", "The read operation timed out") }

\* <<athlete_id, api_key>> of a call: the defaults, both given, an empty id
CallerArgs == {<<None, None>>, <<Some("i7"), Some("k2")>>, <<Some(""), None>>}

\* <<athlete_id, api_key>> of a get_athlete call: those of CallerArgs and an
\* api_key that is the empty string
AthleteCallerArgs == CallerArgs \cup {<<None, Some("")>>}

\* <<start_date, end_date>> of a call: the defaults, a window given, a
\* start_date after the default end_date
WindowArgs ==
    { <<None, None>>,
      <<Some(<<2024, 3, 2>>), Some(<<2024, 3, 31>>)>>,
      <<Some(<<2024, 3, 2>>), None>> }

\* <<athlete_id, api_key, start_date, end_date>> of a get_activities call:
\* the defaults, all four given, a start_date after the default end_date, a
\* window 60 days before which the year has three digits, an empty id
ActivityArgs ==
    { <<None, None, None, None>>,
      <<Some("i7"), Some("k2"), Some(<<2024, 3, 2>>), Some(<<2024, 3, 31>>)>>,
      <<None, None, Some(<<2024, 3, 2>>), None>>,
      <<None, None, Some(<<1000, 1, 15>>), Some(<<1000, 1, 31>>)>>,
      <<Some(""), None, None, None>> }

(***************************************************************************)
(* Actions                                                                 *)
(***************************************************************************)
\* httpx.AsyncClient() of line 73
AsyncClient == [closes |-> 0]

\* the lifespan context manager at its yield: the server runs
Serving == [pc |-> "yield", exc |-> "none"]

\* no helper function is being applied
NoProbe == [fn |-> "none", arg |-> JNull, out |-> <<>>, done |-> FALSE]

\* the module constants of lines 94-96 and the day of the run
Defaults ==
    /\ API_KEY = "k1"
    /\ ATHLETE_ID = "i1"
    /\ now = fromisoformat(<<2024, 3, 1>>)

Init ==
    /\ calls = [c \in Calls |-> Idle]
    /\ Defaults
    /\ httpx_client = AsyncClient
    /\ lifespan = Serving
    /\ probe = NoProbe

Env == <<API_KEY, ATHLETE_ID, now, httpx_client, lifespan, probe>>

Invoke_get_activities(c) ==
    /\ calls[c].pc = "idle"
    /\ \E args \in ActivityArgs, limit \in 1..MaxLimit, include_unnamed \in BOOLEAN :
          calls' = [calls EXCEPT ![c] = get_activities_begin(
                        calls[c], args[1], args[2], args[3], args[4],
                        limit, include_unnamed)]
    /\ UNCHANGED Env

Respond_get_activities_primary(c) ==
    /\ calls[c].tool = "get_activities"
    /\ calls[c].pc = "primary"
    /\ \E o \in Outcomes :
          calls' = [calls EXCEPT ![c] = get_activities_primary(
                        Received(calls[c], o), make_intervals_request(o))]
    /\ UNCHANGED Env

Respond_get_activities_backfill(c) ==
    /\ calls[c].tool = "get_activities"
    /\ calls[c].pc = "backfill"
    /\ \E o \in Outcomes :
          calls' = [calls EXCEPT ![c] = get_activities_backfill(
                        Received(calls[c], o), make_intervals_request(o))]
    /\ UNCHANGED Env

Invoke_get_wellness_data(c) ==
    /\ calls[c].pc = "idle"
    /\ \E caller \in CallerArgs, window \in WindowArgs :
          calls' = [calls EXCEPT ![c] = get_wellness_data_begin(
                        calls[c], caller[1], caller[2], window[1], window[2])]
    /\ UNCHANGED Env

Respond_get_wellness_data(c) ==
    /\ calls[c].tool = "get_wellness_data"
    /\ calls[c].pc = "primary"
    /\ \E o \in Outcomes :
          calls' = [calls EXCEPT ![c] = get_wellness_data_result(
                        Received(calls[c], o), make_intervals_request(o))]
    /\ UNCHANGED Env

Invoke_get_athlete(c) ==
    /\ calls[c].pc = "idle"
    /\ \E caller \in AthleteCallerArgs :
          calls' = [calls EXCEPT ![c] = get_athlete_begin(calls[c], caller[1], caller[2])]
    /\ UNCHANGED Env

Respond_get_athlete(c) ==
    /\ calls[c].tool = "get_athlete"
    /\ calls[c].pc = "primary"
    /\ \E o \in Outcomes :
          calls' = [calls EXCEPT ![c] = get_athlete_result(
                        Received(calls[c], o), make_intervals_request(o))]
    /\ UNCHANGED Env

Invoke_get_races(c) ==
    /\ calls[c].pc = "idle"
    /\ \E caller \in CallerArgs :
          calls' = [calls EXCEPT ![c] = get_races_begin(calls[c], caller[1], caller[2])]
    /\ UNCHANGED Env

Respond_get_races_events(c) ==
    /\ calls[c].tool = "get_races"
    /\ calls[c].pc = "primary"
    /\ \E o \in EventOutcomes :
          calls' = [calls EXCEPT ![c] = get_races_events(
                        Received(calls[c], o), make_intervals_request(o))]
    /\ UNCHANGED Env

Respond_get_races_shared(c) ==
    /\ calls[c].tool = "get_races"
    /\ calls[c].pc = "shared"
    /\ \E o \in SharedEventOutcomes :
          calls' = [calls EXCEPT ![c] = get_races_shared(
                        Received(calls[c], o), make_intervals_request(o))]
    /\ UNCHANGED Env

\* one tool call, dispatched and run to its return
Next ==
    \/ Invoke_get_activities("c1")
    \/ Respond_get_activities_primary("c1")
    \/ Respond_get_activities_backfill("c1")
    \/ Invoke_get_wellness_data("c1")
    \/ Respond_get_wellness_data("c1")
    \/ Invoke_get_athlete("c1")
    \/ Respond_get_athlete("c1")
    \/ Invoke_get_races("c1")
    \/ Respond_get_races_events("c1")
    \/ Respond_get_races_shared("c1")

Spec == Init /\ [][Next]_vars

(***************************************************************************)
(* _parse_activities_from_result applied to one result                     *)
(***************************************************************************)
\* the lists a value of a dict result may be
ShortLists == {JList(es) : es \in UNION {[1..k -> {RecRide, JStr("skip")}] : k \in 0..MaxItems}}

\* dict results that hold lists: one list after a scalar and before a second
\* list, or one list before a name
ContainerPayloads ==
    {JMap(<<"meta", "items", "more">>, <<JNum(1), a, b>>) : a \in ShortLists, b \in ShortLists}
    \cup {JMap(<<"items", "name">>, <<a, JStr("Solo Ride")>>) : a \in ShortLists}

InitParse ==
    /\ calls = [c \in Calls |-> Idle]
    /\ Defaults
    /\ httpx_client = AsyncClient
    /\ lifespan = Serving
    /\ \E result \in Payloads \cup ContainerPayloads :
          probe = [fn |-> "_parse_activities_from_result", arg |-> result,
                   out |-> <<>>, done |-> FALSE]

Apply_parse_activities_from_result ==
    /\ probe.fn = "_parse_activities_from_result"
    /\ ~probe.done
    /\ probe' = [probe EXCEPT !.out = _parse_activities_from_result(probe.arg),
                              !.done = TRUE]
    /\ UNCHANGED <<calls, API_KEY, ATHLETE_ID, now, httpx_client, lifespan>>

NextParse == Apply_parse_activities_from_result

SpecParse == InitParse /\ [][NextParse]_vars

(***************************************************************************)
(* The server: the lifespan context manager around the tool calls that     *)
(* FastMCP dispatches, two of them in flight at a time                     *)
(***************************************************************************)
\* <<athlete_id, api_key>> of a dispatched call
ServedCallerArgs == {<<None, None>>, <<Some("i7"), Some("k2")>>}

\* <<start_date, end_date>> of a dispatched get_activities call
ServedWindowArgs == {<<Some(<<2024, 3, 2>>), Some(<<2024, 3, 31>>)>>}

\* what the GET of a dispatched call may do
ServedOutcomes ==
    { JsonBody(200, JList(<<RecRide>>)),
      JsonBody(200, JList(<<RecUnnamed, RecRun>>)),
      Response(500, "", FALSE, JNull),
      Raises("ReadTimeout", "The read operation timed out") }

\* what may end the body of the lifespan context other than its return
BodyExceptions == {"CancelledError"}

\* FastMCP is about to enter lifespan(app)
InitServer ==
    /\ calls = [c \in Calls |-> Idle]
    /\ Defaults
    /\ httpx_client = AsyncClient
    /\ lifespan = [pc |-> "try", exc |-> "none"]
    /\ probe = NoProbe

\* lines 84-85: the context manager reaches its yield, the server runs
Lifespan_enter ==
    /\ lifespan.pc = "try"
    /\ lifespan' = [lifespan EXCEPT !.pc = "yield"]
    /\ UNCHANGED <<calls, API_KEY, ATHLETE_ID, now, httpx_client, probe>>

\* the body of the context ends by returning: control resumes after yield
Lifespan_body_returns ==
    /\ lifespan.pc = "yield"
    /\ lifespan' = [lifespan EXCEPT !.pc = "finally"]
    /\ UNCHANGED <<calls, API_KEY, ATHLETE_ID, now, httpx_client, probe>>

\* Lifespan_body_raises for a context manager that has no finally clause:
\* the exception thrown in at the yield leaves the generator at once
Lifespan_body_raises_NoFinally ==
    /\ lifespan.pc = "yield"
    /\ \E exc \in BodyExceptions :
          lifespan' = [lifespan EXCEPT !.pc = "exit", !.exc = exc]
    /\ UNCHANGED <<calls, API_KEY, ATHLETE_ID, now, httpx_client, probe>>

\* the body of the context ends by an exception: it is thrown in at the
\* yield, and the finally clause runs
Lifespan_body_raises ==
    /\ lifespan.pc = "yield"
    /\ \E exc \in BodyExceptions :
          lifespan' = [lifespan EXCEPT !.pc = "finally", !.exc = exc]
    /\ UNCHANGED <<calls, API_KEY, ATHLETE_ID, now, httpx_client, probe>>

\* lines 86-87: await httpx_client.aclose(), then the context manager is
\* left, by the exception of the body if there was one
Lifespan_finally ==
    /\ lifespan.pc = "finally"
    /\ httpx_client' = [httpx_client EXCEPT !.closes = @ + 1]
    /\ lifespan' = [lifespan EXCEPT !.pc = "exit"]
    /\ UNCHANGED <<calls, API_KEY, ATHLETE_ID, now, probe>>

Serve_Invoke_get_activities(c) ==
    /\ lifespan.pc = "yield"
    /\ calls[c].pc = "idle"
    /\ \E caller \in ServedCallerArgs, window \in ServedWindowArgs,
          limit \in 1..MaxLimit, include_unnamed \in BOOLEAN :
          calls' = [calls EXCEPT ![c] = get_activities_begin(
                        calls[c], caller[1], caller[2], window[1], window[2],
                        limit, include_unnamed)]
    /\ UNCHANGED Env

\* Serve_get_activities_primary with activities kept in a module-level list
\* that is not emptied between calls
Serve_get_activities_primary_ModuleList(c) ==
    /\ lifespan.pc = "yield"
    /\ calls[c].tool = "get_activities"
    /\ calls[c].pc = "primary"
    /\ \E o \in ServedOutcomes, d \in Calls \ {c} :
          LET r == make_intervals_request(o)
              kept == get_activities_primary(Received(calls[c], o), r)
          IN  calls' = [calls EXCEPT ![c] =
                  IF r.exc = "none" /\ ~IsErrorResult(r.value) /\ calls[d].pc = "done"
                  THEN [kept EXCEPT !.activities = calls[d].activities \o @]
                  ELSE kept]
    /\ UNCHANGED Env

\* Serve_get_activities_primary with activities kept in a module-level
\* variable: the assignment is seen by the call suspended at its backfill
Serve_get_activities_primary_SharedVariable(c) ==
    /\ lifespan.pc = "yield"
    /\ calls[c].tool = "get_activities"
    /\ calls[c].pc = "primary"
    /\ \E o \in ServedOutcomes :
          LET mine == get_activities_primary(Received(calls[c], o), make_intervals_request(o))
          IN  calls' = [d \in Calls |->
                  IF d = c THEN mine
                  ELSE IF calls[d].tool = "get_activities" /\ calls[d].pc = "backfill"
                  THEN [calls[d] EXCEPT !.activities = mine.activities]
                  ELSE calls[d]]
    /\ UNCHANGED Env

Serve_get_activities_primary(c) ==
    /\ lifespan.pc = "yield"
    /\ calls[c].tool = "get_activities"
    /\ calls[c].pc = "primary"
    /\ \E o \in ServedOutcomes :
          calls' = [calls EXCEPT ![c] = get_activities_primary(
                        Received(calls[c], o), make_intervals_request(o))]
    /\ UNCHANGED Env

Serve_get_activities_backfill(c) ==
    /\ lifespan.pc = "yield"
    /\ calls[c].tool = "get_activities"
    /\ calls[c].pc = "backfill"
    /\ \E o \in ServedOutcomes :
          calls' = [calls EXCEPT ![c] = get_activities_backfill(
                        Received(calls[c], o), make_intervals_request(o))]
    /\ UNCHANGED Env

Serve_Invoke_get_athlete(c) ==
    /\ lifespan.pc = "yield"
    /\ calls[c].pc = "idle"
    /\ \E caller \in ServedCallerArgs :
          calls' = [calls EXCEPT ![c] = get_athlete_begin(calls[c], caller[1], caller[2])]
    /\ UNCHANGED Env

Serve_get_athlete(c) ==
    /\ lifespan.pc = "yield"
    /\ calls[c].tool = "get_athlete"
    /\ calls[c].pc = "primary"
    /\ \E o \in ServedOutcomes :
          calls' = [calls EXCEPT ![c] = get_athlete_result(
                        Received(calls[c], o), make_intervals_request(o))]
    /\ UNCHANGED Env

\* the lifespan of the server and, while its body runs, the tool calls in
\* any interleaving of their steps
NextServer ==
    \/ Lifespan_enter
    \/ Lifespan_body_returns
    \/ Lifespan_body_raises
    \/ Lifespan_finally
    \/ \E c \in Calls : Serve_Invoke_get_activities(c)
    \/ \E c \in Calls : Serve_get_activities_primary(c)
    \/ \E c \in Calls : Serve_get_activities_backfill(c)
    \/ \E c \in Calls : Serve_Invoke_get_athlete(c)
    \/ \E c \in Calls : Serve_get_athlete(c)

SpecServer == InitServer /\ [][NextServer]_vars

(***************************************************************************)
(* _filter_named_activities applied to one list of activities              *)
(***************************************************************************)
RecNullName == JMap(<<"id", "name">>, <<JNum(6), JNull>>)

\* the activities a list may hold
Records == {RecRide, RecRun, RecUnnamed, RecNoName, RecEmptyName, RecNullName}

ActivityLists == UNION {[1..k -> Records] : k \in 0..(MaxItems + 1)}

InitFilter ==
    /\ calls = [c \in Calls |-> Idle]
    /\ Defaults
    /\ httpx_client = AsyncClient
    /\ lifespan = Serving
    /\ \E activities \in ActivityLists :
          probe = [fn |-> "_filter_named_activities", arg |-> activities,
                   out |-> <<>>, done |-> FALSE]

Apply_filter_named_activities ==
    /\ probe.fn = "_filter_named_activities"
    /\ ~probe.done
    /\ probe' = [probe EXCEPT !.out = _filter_named_activities(probe.arg),
                              !.done = TRUE]
    /\ UNCHANGED <<calls, API_KEY, ATHLETE_ID, now, httpx_client, lifespan>>

NextFilter == Apply_filter_named_activities

SpecFilter == InitFilter /\ [][NextFilter]_vars

(***************************************************************************)
(* calculate_date_info.  Its argument is a str, here the sequence of its   *)
(* characters, so that strptime has a text to match.                       *)
(***************************************************************************)
DigitValue(ch) ==
    CASE ch = "0" -> 0 [] ch = "1" -> 1 [] ch = "2" -> 2 [] ch = "3" -> 3
      [] ch = "4" -> 4 [] ch = "5" -> 5 [] ch = "6" -> 6 [] ch = "7" -> 7
      [] ch = "8" -> 8 [] ch = "9" -> 9 [] OTHER -> -1

\* the str of a sequence of characters
RECURSIVE Text(_)
Text(s) == IF s = <<>> THEN "" ELSE Head(s) \o Text(Tail(s))

\* s[i:]
From(s, i) == SubSeq(s, i, Len(s))

\* %Y of _strptime: (?P<Y>\d\d\d\d), at the start of s; -1 for no match
MatchYear(s) ==
    IF Len(s) >= 4 /\ \A i \in 1..4 : DigitValue(s[i]) >= 0
    THEN DigitValue(s[1]) * 1000 + DigitValue(s[2]) * 100
         + DigitValue(s[3]) * 10 + DigitValue(s[4])
    ELSE -1

\* %m of _strptime: (?P<m>1[0-2]|0[1-9]|[1-9]), as <<value, length>>
MatchMonth(s) ==
    IF Len(s) >= 2 /\ s[1] = "1" /\ DigitValue(s[2]) \in 0..2
    THEN <<10 + DigitValue(s[2]), 2>>
    ELSE IF Len(s) >= 2 /\ s[1] = "0" /\ DigitValue(s[2]) \in 1..9
    THEN <<DigitValue(s[2]), 2>>
    ELSE IF Len(s) >= 1 /\ DigitValue(s[1]) \in 1..9
    THEN <<DigitValue(s[1]), 1>>
    ELSE <<-1, 0>>

\* MatchDay that takes two digits only
MatchDay_TwoDigits(s) ==
    IF Len(s) >= 2 /\ s[1] = "3" /\ DigitValue(s[2]) \in 0..1
    THEN <<30 + DigitValue(s[2]), 2>>
    ELSE IF Len(s) >= 2 /\ DigitValue(s[1]) \in 1..2 /\ DigitValue(s[2]) >= 0
    THEN <<DigitValue(s[1]) * 10 + DigitValue(s[2]), 2>>
    ELSE IF Len(s) >= 2 /\ s[1] = "0" /\ DigitValue(s[2]) \in 1..9
    THEN <<DigitValue(s[2]), 2>>
    ELSE <<-1, 0>>

\* %d of _strptime: (?P<d>3[01]|[12]\d|0[1-9]|[1-9]| [1-9]), as
\* <<value, length>>
MatchDay(s) ==
    IF Len(s) >= 2 /\ s[1] = "3" /\ DigitValue(s[2]) \in 0..1
    THEN <<30 + DigitValue(s[2]), 2>>
    ELSE IF Len(s) >= 2 /\ DigitValue(s[1]) \in 1..2 /\ DigitValue(s[2]) >= 0
    THEN <<DigitValue(s[1]) * 10 + DigitValue(s[2]), 2>>
    ELSE IF Len(s) >= 2 /\ s[1] = "0" /\ DigitValue(s[2]) \in 1..9
    THEN <<DigitValue(s[2]), 2>>
    ELSE IF Len(s) >= 1 /\ DigitValue(s[1]) \in 1..9
    THEN <<DigitValue(s[1]), 1>>
    ELSE IF Len(s) >= 2 /\ s[1] = " " /\ DigitValue(s[2]) \in 1..9
    THEN <<DigitValue(s[2]), 2>>
    ELSE <<-1, 0>>

Parsed3(y, m, d) == [exc |-> "none", msg |-> "", ymd |-> <<y, m, d>>]
ValueError(msg) == [exc |-> "ValueError", msg |-> msg, ymd |-> NoDate]

\* datetime.strptime(date, "%Y-%m-%d"): the regular expression of the
\* format is matched at the start of date, nothing may remain after it,
\* and the fields must be a date of the calendar
strptime(date) ==
    LET nomatch == ValueError("time data '" \o Text(date)
                              \o "' does not match format '%Y-%m-%d'")
        y == MatchYear(date)
        m1 == MatchMonth(From(date, 6))
        dash2 == 6 + m1[2]
        d == MatchDay(From(date, dash2 + 1))
        rest == From(date, dash2 + 1 + d[2])
    IN  IF y < 0 \/ Len(date) < 6 \/ date[5] # "-" THEN nomatch
        ELSE IF m1[1] < 0 \/ Len(date) < dash2 \/ date[dash2] # "-" THEN nomatch
        ELSE IF d[1] < 0 THEN nomatch
        ELSE IF rest # <<>> THEN ValueError("unconverted data remains: " \o Text(rest))
        ELSE IF y < 1 THEN ValueError("year " \o ToString(y) \o " is out of range")
        ELSE IF d[1] > DaysInMonth(y, m1[1]) THEN ValueError("day is out of range for month")
        ELSE Parsed3(y, m1[1], d[1])

\* date.toordinal(): days since 0001-01-01, that day being 1
toordinal(ymd) ==
    LET y == ymd[1] - 1
    IN  y * 365 + y \div 4 - y \div 100 + y \div 400
        + DaysBeforeMonth(ymd[1], ymd[2]) + ymd[3]

\* date.weekday(): Monday is 0
weekday(ymd) == (toordinal(ymd) + 6) % 7

\* strftime("%A")
DayName(ymd) ==
    <<"Monday", "Tuesday", "Wednesday", "Thursday", "Friday", "Saturday", "Sunday">>[weekday(ymd) + 1]

\* int(strftime("%W")): the week of the year, weeks starting on Monday
WeekNumber(ymd) == (DaysBeforeMonth(ymd[1], ymd[2]) + ymd[3] - 1 + 7 - weekday(ymd)) \div 7

calculate_date_info(date) ==
    LET parsed == strptime(date)
        target_date == parsed.ymd
        days_diff == fromisoformat(target_date) - now
    IN  IF parsed.exc = "ValueError"
        THEN Returned(JMap(<<"error", "message">>,
                 <<JBool(TRUE),
                   JStr("Invalid date format. Expected YYYY-MM-DD, got: " \o Text(date)
                        \o ". Error: " \o parsed.msg)>>))
        ELSE Returned(JMap(
                 <<"date", "day_of_week", "days_from_today", "is_weekend",
                   "week_number", "year", "month", "day",
                   "is_past", "is_future", "is_today">>,
                 <<JStr(Text(date)), JStr(DayName(target_date)), JNum(days_diff),
                   JBool(weekday(target_date) \in {5, 6}),
                   JNum(WeekNumber(target_date)), JNum(target_date[1]),
                   JNum(target_date[2]), JNum(target_date[3]),
                   JBool(days_diff < 0), JBool(days_diff > 0), JBool(days_diff = 0)>>))

\* the texts a client may pass as date
DateYears == {<<"2", "0", "2", "4">>, <<"2", "0", "2", "5">>, <<"2", "4">>}
DateMonths == {<<"0", "2">>, <<"2">>, <<"0", "3">>, <<"3">>, <<"1", "3">>}
DateDays == {<<"0", "1">>, <<"1">>, <<"2", "9">>, <<"3", "0">>, <<"3", "1">>, <<" ", "1">>}

DateStrings ==
    {y \o <<sep>> \o m \o <<sep>> \o d :
        y \in DateYears, sep \in {"-", "/"}, m \in DateMonths, d \in DateDays}
    \cup { <<"i", "n", "v", "a", "l", "i", "d", "-", "d", "a", "t", "e">>,
           <<"2", "0", "2", "4", "-", "0", "3", "-", "0", "1", "T">>,
           <<>> }

InitDate ==
    /\ calls = [c \in Calls |-> Idle]
    /\ Defaults
    /\ httpx_client = AsyncClient
    /\ lifespan = Serving
    /\ \E date \in DateStrings :
          probe = [fn |-> "calculate_date_info", arg |-> date,
                   out |-> <<>>, done |-> FALSE]

Apply_calculate_date_info ==
    /\ probe.fn = "calculate_date_info"
    /\ ~probe.done
    /\ probe' = [probe EXCEPT !.out = calculate_date_info(probe.arg),
                              !.done = TRUE]
    /\ UNCHANGED <<calls, API_KEY, ATHLETE_ID, now, httpx_client, lifespan>>

NextDate == Apply_calculate_date_info

SpecDate == InitDate /\ [][NextDate]_vars

(***************************************************************************)
(* Properties                                                              *)
(***************************************************************************)
\* the GET failed in the taxonomy of the error handling design: a transport
\* failure, a body that is no JSON, or a status >= 400
IsFailure(o) == o.exc # "none" \/ (o.text # "" /\ ~o.parses) \/ o.status >= 400

\* the body of the response is not empty and is no JSON
IsInvalidJson(o) == o.exc = "none" /\ o.text # "" /\ ~o.parses

\* the k-th GET of call c has been answered
Answered(c, k) == k \in 1..Len(calls[c].outcomes)

IsActivities(c) == calls[c].tool = "get_activities"
IsDone(c) == calls[c].pc = "done"

\* C1: whatever the GET does (a response of any status, a body that is no
\* JSON, a timeout, another transport failure), make_intervals_request
\* returns one value, the parsed payload or an error dict, and no exception
\* of the GET reaches the handler that called it.
C1_MediatorNeverRaises ==
    \A c \in Calls :
        /\ Len(calls[c].results) = Len(calls[c].outcomes)
        /\ calls[c].exc \notin {"ReadTimeout", "ConnectError", "TooManyRedirects",
                                "HTTPStatusError", "JSONDecodeError"}
        /\ \A k \in 1..Len(calls[c].outcomes) :
              LET o == calls[c].outcomes[k]
                  r == make_intervals_request(o)
              IN  /\ r.exc = "none"
                  /\ IF IsFailure(o)
                     THEN /\ IsDict(r.value)
                          /\ Get(r.value, "error", JNull) = JBool(TRUE)
                          /\ IsStr(Get(r.value, "message", JNull))
                     ELSE r.value = (IF o.text = "" THEN JMap(<<>>, <<>>) ELSE o.data)

C1_Witness ==
    \E c \in Calls :
        /\ Len(calls[c].outcomes) = 2
        /\ calls[c].outcomes[1].exc = "none" /\ ~IsFailure(calls[c].outcomes[1])
        /\ calls[c].outcomes[2].exc = "ConnectError"
        /\ IsDone(c) /\ calls[c].exc = "none"

\* C2: no tool handler raises an exception to the hosting framework,
\* whatever make_intervals_request returned to it.
C2_HandlersNeverRaise == \A c \in Calls : calls[c].exc = "none"

\* C3: one invocation of get_activities issues at most 2 GETs.
C3_AtMostTwoRequests ==
    \A c \in Calls : IsActivities(c) => Len(calls[c].requests) <= 2

C3_Witness ==
    \E c \in Calls :
        /\ IsActivities(c) /\ IsDone(c)
        /\ Len(calls[c].requests) = 2
        /\ IsFailure(calls[c].outcomes[2])
        /\ calls[c].start_date = <<2024, 3, 2>>

\* C4: with limit > 0, get_activities returns at most limit records.
C4_AtMostLimitRecords ==
    \A c \in Calls :
        IsActivities(c) /\ IsDone(c) /\ calls[c].limit > 0 =>
            /\ Len(calls[c].activities) <= calls[c].limit
            /\ Len(calls[c].ret.items) <= calls[c].limit

C4_Witness ==
    \E c \in Calls :
        /\ IsActivities(c) /\ IsDone(c)
        /\ calls[c].limit = 1
        /\ Len(calls[c].outcomes) = 1
        /\ Len(_parse_activities_from_result(calls[c].results[1])) = 2
        /\ Len(calls[c].ret.items) = 1

\* C5: when the primary GET of get_activities fails, the handler returns
\* "Error fetching activities: " followed by the message of the mediator's
\* error dict, returns no record and issues no backfill request.
C5_PrimaryErrorReturned ==
    \A c \in Calls :
        IsActivities(c) /\ Answered(c, 1) /\ IsFailure(calls[c].outcomes[1]) =>
            /\ IsDone(c) /\ calls[c].exc = "none"
            /\ calls[c].ret =
                   Str("Error fetching activities: "
                       \o Get(make_intervals_request(calls[c].outcomes[1]).value,
                              "message", JNull).s)
            /\ calls[c].activities = <<>>
            /\ Len(calls[c].requests) = 1

C5_Witness ==
    \E c \in Calls :
        /\ IsActivities(c) /\ Answered(c, 1)
        /\ calls[c].outcomes[1].status = 429
        /\ ~calls[c].include_unnamed
        /\ calls[c].ret.text =
               "Error fetching activities: 429 Too Many Requests: Too many requests in a short time period."

\* C6: when the backfill GET fails, get_activities still returns: exactly
\* the named records of the primary result, cut to limit, as with a
\* backfill that brought nothing.
C6_BackfillErrorSwallowed ==
    \A c \in Calls :
        IsActivities(c) /\ Answered(c, 2) /\ IsFailure(calls[c].outcomes[2]) =>
            LET named == KeepNamed(_parse_activities_from_result(calls[c].results[1]))
            IN  /\ IsDone(c) /\ calls[c].exc = "none"
                /\ calls[c].activities = Take(named, calls[c].limit)
                /\ calls[c].ret = _format_activities_response(
                       Take(named, calls[c].limit), calls[c].athlete_id, FALSE)

C6_Witness ==
    \E c \in Calls :
        /\ IsActivities(c) /\ Answered(c, 2)
        /\ calls[c].outcomes[2].exc = "ReadTimeout"
        /\ calls[c].activities = <<RecRun>>
        /\ calls[c].limit = 2

\* C7: with include_unnamed, get_activities issues exactly one GET, with
\* limit = the limit argument, never a backfill GET, and on a result that
\* is no error it returns the records parsed from it, unnamed ones
\* included, cut to limit.
C7_IncludeUnnamedSingleRequest ==
    \A c \in Calls :
        IsActivities(c) /\ calls[c].include_unnamed /\ calls[c].athlete_id # "" =>
            /\ Len(calls[c].requests) = 1
            /\ calls[c].requests[1].params.limit = Some(calls[c].limit)
            /\ calls[c].pc \in {"primary", "done"}
            /\ Answered(c, 1) => IsDone(c)
            /\ Answered(c, 1) /\ ~IsErrorResult(calls[c].results[1]) =>
                  LET all == Take(_parse_activities_from_result(calls[c].results[1]),
                                  calls[c].limit)
                  IN  /\ calls[c].activities = all
                      /\ calls[c].exc = "none"
                      /\ all # <<>> => calls[c].ret.items = MapSummary(all)

C7_Witness ==
    \E c \in Calls :
        /\ IsActivities(c) /\ calls[c].include_unnamed /\ IsDone(c)
        /\ calls[c].limit = 2
        /\ calls[c].activities = <<RecUnnamed>>
        /\ Len(calls[c].requests) = 1

\* C8: a timeout or another transport failure of the GET gives an error
\* dict without status_code whose message is "Request error: " and the
\* text of the exception; nothing is raised.
C8_TransportFailureIsRequestError ==
    \A c \in Calls : \A k \in 1..Len(calls[c].outcomes) :
        LET o == calls[c].outcomes[k]
            r == make_intervals_request(o)
        IN  IsInstance(o.exc, "TransportError") =>
                /\ r.exc = "none"
                /\ calls[c].results[k] = r.value
                /\ Get(r.value, "error", JNull) = JBool(TRUE)
                /\ ~HasKey(r.value, "status_code")
                /\ Get(r.value, "message", JNull) = JStr("Request error: " \o o.msg)

C8_Witness ==
    \E c \in Calls :
        /\ Answered(c, 1)
        /\ calls[c].outcomes[1].exc = "ReadTimeout"
        /\ calls[c].tool = "get_athlete"
        /\ calls[c].ret.text =
               "Error fetching athlete data: Request error: The read operation timed out"

\* C9: a response with status >= 400 whose body is not empty and is no
\* JSON gives the error "Invalid JSON in response", not the error of the
\* status.
C9_InvalidJsonBeforeStatus ==
    \A c \in Calls : \A k \in 1..Len(calls[c].outcomes) :
        LET o == calls[c].outcomes[k]
        IN  IsInvalidJson(o) /\ o.status >= 400 =>
                /\ Get(calls[c].results[k], "message", JNull) = JStr("Invalid JSON in response")
                /\ Get(calls[c].results[k], "message", JNull)
                       # JStr(CustomMessage(o.status, o.text))

C9_Witness ==
    \E c \in Calls :
        /\ Answered(c, 1)
        /\ IsInvalidJson(calls[c].outcomes[1])
        /\ calls[c].outcomes[1].status = 503
        /\ calls[c].ret.text = "Error fetching wellness data: Invalid JSON in response"

\* C10 as claimed: the error dict for a body that is no JSON carries the
\* status of the response and the message "Invalid JSON in response".
C10_InvalidJsonCarriesStatus ==
    \A c \in Calls : \A k \in 1..Len(calls[c].outcomes) :
        LET o == calls[c].outcomes[k]
        IN  IsInvalidJson(o) =>
                /\ Get(calls[c].results[k], "status_code", JNull) = JNum(o.status)
                /\ Get(calls[c].results[k], "message", JNull) = JStr("Invalid JSON in response")

\* C10: the error dict for a body that is no JSON is exactly
\* {"error": True, "message": "Invalid JSON in response"}: it has no
\* status_code, whatever the status of the response.
C10_InvalidJsonWithoutStatus ==
    \A c \in Calls : \A k \in 1..Len(calls[c].outcomes) :
        LET o == calls[c].outcomes[k]
        IN  IsInvalidJson(o) =>
                /\ ~HasKey(calls[c].results[k], "status_code")
                /\ calls[c].results[k] =
                       JMap(<<"error", "message">>, <<JBool(TRUE), JStr("Invalid JSON in response")>>)

C10_Witness ==
    \E c \in Calls :
        /\ IsActivities(c) /\ Answered(c, 1)
        /\ IsInvalidJson(calls[c].outcomes[1])
        /\ calls[c].outcomes[1].status = 404
        /\ IsDone(c)

\* the response has one of the seven statuses of error_messages and a body
\* that is empty or JSON
IsListedError(o) ==
    o.exc = "none" /\ o.status \in ListedStatuses /\ (o.text = "" \/ o.parses)

\* C11 as claimed: for a response with one of the seven listed statuses and
\* a body that is empty or JSON, the error dict carries the status and its
\* message is the phrase of the table alone, nothing before or after it.
C11_MessageIsTablePhrase ==
    \A c \in Calls : \A k \in 1..Len(calls[c].outcomes) :
        LET o == calls[c].outcomes[k]
        IN  IsListedError(o) =>
                /\ Get(calls[c].results[k], "status_code", JNull) = JNum(o.status)
                /\ Get(calls[c].results[k], "message", JNull) = JStr(
                       CASE o.status = 401 -> "Please check your API key."
                         [] o.status = 403 -> "You may not have permission to access this resource."
                         [] o.status = 404 -> "The requested endpoint or ID doesn't exist."
                         [] o.status = 422 -> "The server couldn't process the request (invalid parameters or unsupported operation)."
                         [] o.status = 429 -> "Too many requests in a short time period."
                         [] o.status = 500 -> "The Intervals.icu server encountered an internal error."
                         [] o.status = 503 -> "The Intervals.icu server might be down or undergoing maintenance.")

\* C11: for a response with one of the seven listed statuses and a body
\* that is empty or JSON, the error dict carries the status and its message
\* is "<code> <reason phrase>: " followed by the phrase of the table.
C11_MessageIsPrefixedTablePhrase ==
    \A c \in Calls : \A k \in 1..Len(calls[c].outcomes) :
        LET o == calls[c].outcomes[k]
        IN  IsListedError(o) =>
                calls[c].results[k] = JMap(<<"error", "status_code", "message">>,
                    <<JBool(TRUE), JNum(o.status), JStr(
                       CASE o.status = 401 -> "401 Unauthorized: Please check your API key."
                         [] o.status = 403 -> "403 Forbidden: You may not have permission to access this resource."
                         [] o.status = 404 -> "404 Not Found: The requested endpoint or ID doesn't exist."
                         [] o.status = 422 -> "422 Unprocessable Entity: The server couldn't process the request (invalid parameters or unsupported operation)."
                         [] o.status = 429 -> "429 Too Many Requests: Too many requests in a short time period."
                         [] o.status = 500 -> "500 Internal Server Error: The Intervals.icu server encountered an internal error."
                         [] o.status = 503 -> "503 Service Unavailable: The Intervals.icu server might be down or undergoing maintenance.")>>)

C11_Witness ==
    \E c \in Calls :
        /\ Answered(c, 1)
        /\ calls[c].outcomes[1].status = 401
        /\ calls[c].outcomes[1].parses
        /\ calls[c].tool = "get_athlete"
        /\ calls[c].ret.text =
               "Error fetching athlete data: 401 Unauthorized: Please check your API key."

\* C12: for a response with a status >= 400 that is none of the seven
\* listed ones, registered as an HTTP status or not, and a body that is
\* JSON (or empty), the error dict carries the status and its message is
\* the text of the body.
C12_UnlistedStatusGivesBodyText ==
    \A c \in Calls : \A k \in 1..Len(calls[c].outcomes) :
        LET o == calls[c].outcomes[k]
        IN  /\ o.exc = "none" /\ o.status >= 400 /\ o.status \notin ListedStatuses
            /\ (o.parses \/ o.text = "")
            => calls[c].results[k] = JMap(<<"error", "status_code", "message">>,
                                          <<JBool(TRUE), JNum(o.status), JStr(o.text)>>)

C12_Witness ==
    \E c \in Calls :
        /\ Answered(c, 2)
        /\ calls[c].outcomes[2].status = 599
        /\ calls[c].outcomes[2].parses
        /\ calls[c].outcomes[2].text # ""
        /\ Get(calls[c].results[2], "message", JNull) = JStr(calls[c].outcomes[2].text)
        /\ Get(calls[c].results[2], "status_code", JNull) = JNum(599)

\* C14: a response with an empty body is not parsed as JSON and counts as
\* the payload {}: with a status below 400 the mediator returns {}, with a
\* status >= 400 the error of the status, and never "Invalid JSON in
\* response".
C14_EmptyBodyIsEmptyDict ==
    \A c \in Calls : \A k \in 1..Len(calls[c].outcomes) :
        LET o == calls[c].outcomes[k]
        IN  o.exc = "none" /\ o.text = "" =>
                /\ Get(calls[c].results[k], "message", JNull) # JStr("Invalid JSON in response")
                /\ o.status < 400 => calls[c].results[k] = JMap(<<>>, <<>>)
                /\ o.status >= 400 =>
                       Get(calls[c].results[k], "status_code", JNull) = JNum(o.status)

C14_Witness ==
    \E c \in Calls :
        /\ Answered(c, 1)
        /\ calls[c].outcomes[1].exc = "none"
        /\ calls[c].outcomes[1].text = ""
        /\ calls[c].outcomes[1].status = 200
        /\ calls[c].results[1] = JMap(<<>>, <<>>)
        /\ IsDone(c)

\* C13: each call of make_intervals_request calls httpx_client.get once:
\* whatever the GET did (timeout, transport failure, 429, 5xx, a body that
\* is no JSON), the number of GETs stays the number of mediator calls.
C13_OneAttemptPerMediatorCall ==
    \A c \in Calls :
        /\ calls[c].attempts = Len(calls[c].requests)
        /\ Len(calls[c].outcomes) <= calls[c].attempts
        /\ calls[c].attempts <= Len(calls[c].outcomes) + 1

C13_Witness ==
    \E c \in Calls :
        /\ Answered(c, 2)
        /\ calls[c].outcomes[1].status = 200
        /\ calls[c].outcomes[2].status = 429
        /\ Len(calls[c].requests) = 2
        /\ calls[c].attempts = 2
        /\ IsDone(c)

\* C15: every GET authenticates with the user name "API_KEY" and, as
\* password, the api_key argument of the call when it is not None (the
\* empty string included), the module's API_KEY otherwise; API_KEY keeps
\* its value.
C15_BasicAuthKey ==
    /\ API_KEY = "k1"
    /\ \A c \in Calls : \A k \in 1..Len(calls[c].requests) :
          calls[c].requests[k].auth =
              <<"API_KEY", IF calls[c].api_key = None THEN "k1" ELSE calls[c].api_key[1]>>

C15_Witness ==
    \E c \in Calls :
        /\ Answered(c, 1)
        /\ calls[c].api_key = Some("")
        /\ calls[c].requests[1].auth = <<"API_KEY", "">>
        /\ API_KEY = "k1"

\* _parse_activities_from_result has been applied to probe.arg
Parsed == probe.fn = "_parse_activities_from_result" /\ probe.done

\* the elements of s that are mappings, in the order of s
MappingElements(s) == SelectSeq(s, LAMBDA x : x.t = "map")

\* some value of the mapping v is a sequence
HasSequenceValue(v) == \E i \in 1..Len(v.e) : v.e[i].t = "list"

\* the first value of the mapping v, in insertion order, that is a sequence
FirstSequenceValue(v) ==
    v.e[CHOOSE i \in 1..Len(v.e) :
            v.e[i].t = "list" /\ \A j \in 1..(i - 1) : v.e[j].t # "list"]

\* C16: the projection is exactly the mapping-typed elements, in order, of
\* the payload when it is a sequence, and of the first sequence-valued value
\* when it is a mapping that has one; later sequence values are ignored.
C16_ProjectsFirstSequence ==
    Parsed =>
        /\ probe.arg.t = "list" => probe.out = MappingElements(probe.arg.e)
        /\ probe.arg.t = "map" /\ HasSequenceValue(probe.arg) =>
               probe.out = MappingElements(FirstSequenceValue(probe.arg).e)

\* C17: a mapping none of whose values is a sequence projects to the
\* sequence holding the mapping itself when it has one of the keys name,
\* startTime, distance, and to the empty sequence otherwise; a payload that
\* is neither a sequence nor a mapping projects to the empty sequence.
C17_MarkerRuleWithoutSequence ==
    Parsed =>
        /\ probe.arg.t = "map" /\ ~HasSequenceValue(probe.arg) =>
               probe.out = IF \E i \in 1..Len(probe.arg.ks) :
                                  probe.arg.ks[i] \in {"name", "startTime", "distance"}
                           THEN <<probe.arg>> ELSE <<>>
        /\ probe.arg.t \notin {"list", "map"} => probe.out = <<>>

C17_Witness ==
    /\ Parsed
    /\ probe.arg = JMap(<<"name", "distance">>, <<JStr("Solo Ride"), JNum(500)>>)
    /\ probe.out = <<probe.arg>>

\* calls c and d are get_activities calls with the same arguments that got
\* the same results from make_intervals_request
SameInput(c, d) ==
    /\ IsActivities(c) /\ IsActivities(d)
    /\ calls[c].athlete_id = calls[d].athlete_id
    /\ calls[c].start_date = calls[d].start_date
    /\ calls[c].end_date = calls[d].end_date
    /\ calls[c].limit = calls[d].limit
    /\ calls[c].include_unnamed = calls[d].include_unnamed
    /\ calls[c].results = calls[d].results

AloneActivities(a) ==
    LET begin == get_activities_begin(Idle, Some(a.athlete_id), a.api_key,
                     Some(a.start_date), Some(a.end_date), a.limit, a.include_unnamed)
        first == IF Len(a.outcomes) >= 1
                 THEN get_activities_primary(Received(begin, a.outcomes[1]),
                                             make_intervals_request(a.outcomes[1]))
                 ELSE begin
    IN  IF Len(a.outcomes) >= 2
        THEN get_activities_backfill(Received(first, a.outcomes[2]),
                                     make_intervals_request(a.outcomes[2]))
        ELSE first

AloneAthlete(a) ==
    LET begin == get_athlete_begin(Idle, Some(a.athlete_id), a.api_key)
    IN  IF Len(a.outcomes) >= 1
        THEN get_athlete_result(Received(begin, a.outcomes[1]),
                                make_intervals_request(a.outcomes[1]))
        ELSE begin

Alone(a) ==
    CASE a.tool = "get_activities" -> AloneActivities(a)
      [] a.tool = "get_athlete" -> AloneAthlete(a)
      [] OTHER -> Idle

\* C19: in every interleaving of the steps of the tool calls, the state of
\* each call (its requests, its records, its return value) is the one it has
\* when it runs alone with the same arguments and the same outcomes of its
\* GETs, and API_KEY and ATHLETE_ID keep their values.
C19_CallsDoNotInterfere ==
    /\ API_KEY = "k1"
    /\ ATHLETE_ID = "i1"
    /\ \A c \in Calls :
          /\ calls[c] = Alone(calls[c])
          /\ \A k \in 1..Len(calls[c].requests) :
                calls[c].requests[k].auth[2] =
                    IF calls[c].api_key = None THEN "k1" ELSE calls[c].api_key[1]

C19_Witness ==
    /\ IsActivities("c1") /\ calls["c1"].pc = "backfill"
    /\ calls["c1"].activities = <<RecRun>>
    /\ calls["c1"].api_key = None
    /\ IsActivities("c2") /\ IsDone("c2")
    /\ calls["c2"].api_key = Some("k2")
    /\ calls["c2"].activities = <<RecRide>>
    /\ Len(calls["c2"].outcomes) = 2

\* C20: httpx_client.aclose() runs once, when the lifespan context manager
\* is left, whether its body returned or raised, and not before the body
\* has ended.
C20_ClosedOnceAtExit ==
    /\ httpx_client.closes <= 1
    /\ lifespan.pc \in {"try", "yield", "finally"} => httpx_client.closes = 0
    /\ lifespan.pc = "exit" => httpx_client.closes = 1

C20_Witness ==
    /\ lifespan.pc = "exit"
    /\ lifespan.exc = "CancelledError"
    /\ httpx_client.closes = 1
    /\ IsDone("c1")
    /\ calls["c2"].pc = "primary"

\* calculate_date_info has been applied to probe.arg
Computed == probe.fn = "calculate_date_info" /\ probe.done

DigitChar(k) == <<"0", "1", "2", "3", "4", "5", "6", "7", "8", "9">>[k + 1]

\* the calendar dates of the years the model covers
CalendarDates ==
    {ymd \in (FirstYear..LastYear) \X (1..12) \X (1..31) : ymd[3] <= DaysInMonth(ymd[1], ymd[2])}

\* the four digits of a year, the two digits of a month or a day
FourDigits(n) ==
    <<DigitChar(n \div 1000), DigitChar((n \div 100) % 10),
      DigitChar((n \div 10) % 10), DigitChar(n % 10)>>
TwoDigits(n) == <<DigitChar(n \div 10), DigitChar(n % 10)>>

\* the text of the date ymd in the format YYYY-MM-DD
IsoText(ymd) == FourDigits(ymd[1]) \o <<"-">> \o TwoDigits(ymd[2]) \o <<"-">> \o TwoDigits(ymd[3])

\* the texts of a month or a day: two digits, or one digit without the zero
Shorter(n) == {TwoDigits(n)} \cup (IF n < 10 THEN {<<DigitChar(n)>>} ELSE {})

\* the texts that name the date ymd with a year of four digits and a month
\* and a day of one or two digits (the day also with a space for the zero)
LooseTexts(ymd) ==
    {FourDigits(ymd[1]) \o <<"-">> \o m \o <<"-">> \o d :
        m \in Shorter(ymd[2]),
        d \in Shorter(ymd[3]) \cup (IF ymd[3] < 10 THEN {<<" ", DigitChar(ymd[3])>>} ELSE {})}

\* the value is the date information of ymd: the signed number of days from
\* today and exactly the one flag of its sign
IsDateInfo(v, ymd) ==
    LET diff == toordinal(ymd) - toordinal(strftime(now))
    IN  /\ ~HasKey(v, "error")
        /\ Get(v, "days_from_today", JNull) = JNum(diff)
        /\ Get(v, "is_past", JNull) = JBool(diff < 0)
        /\ Get(v, "is_today", JNull) = JBool(diff = 0)
        /\ Get(v, "is_future", JNull) = JBool(diff > 0)
        /\ Cardinality({k \in {"is_past", "is_today", "is_future"} :
                            Get(v, k, JNull) = JBool(TRUE)}) = 1

IsDateError(v) ==
    /\ Get(v, "error", JNull) = JBool(TRUE)
    /\ IsStr(Get(v, "message", JNull))
    /\ ~HasKey(v, "days_from_today")

InYears(n) == \E y \in Years : DaysBeforeYear(y) < n /\ n <= DaysBeforeYear(y + 1)

\* the day numbers of Years whose day 60 days before is in Years too
StartDays ==
    {n \in UNION {(DaysBeforeYear(y) + 1)..DaysBeforeYear(y + 1) : y \in Years} :
        InYears(n - 60)}

\* the start dates of those days
StartDates == {strftime(n) : n \in StartDays}

\* the start dates D for which the window from D - 60 to D - 1 is empty: the
\* text of its oldest day is >= the text of its newest day
EmptyOlderWindows ==
    {strftime(n) : n \in {k \in StartDays :
                             SeqGeq(DateChars(strftime(k - 60)), DateChars(strftime(k - 1)))}}

\* the window a backfill round of call c would ask for is empty
EmptyBackfillWindow(c) == calls[c].start_date \in EmptyOlderWindows

\* the named records of the primary result of call c, as the handler takes
\* them from the projection
PrimaryNamed(c) == KeepNamed(_parse_activities_from_result(calls[c].results[1]))

\* C22: with include_unnamed false and a primary GET that succeeded, one
\* backfill request is issued, when its window is not empty, if the primary
\* result has fewer than limit named records (none at all included), and no
\* backfill request if it has at least limit.
C22_BackfillIffShortOfNamed ==
    \A c \in Calls :
        /\ IsActivities(c) /\ ~calls[c].include_unnamed
        /\ Answered(c, 1) /\ ~IsFailure(calls[c].outcomes[1])
        => IF Len(PrimaryNamed(c)) < calls[c].limit
           THEN ~EmptyBackfillWindow(c) =>
                    /\ Len(calls[c].requests) = 2
                    /\ ~StrGeq(calls[c].requests[2].params.oldest[1],
                               calls[c].requests[2].params.newest[1])
           ELSE Len(calls[c].requests) = 1

\* the window of call c is empty: its oldest day is later than its newest
EmptyWindow(c) == ~StrGeq(calls[c].end_date, calls[c].start_date)

Filtered == probe.fn = "_filter_named_activities" /\ probe.done

\* the record has a name field whose value is not "Unnamed"
HasOtherName(rec) ==
    \E i \in 1..Len(rec.ks) : rec.ks[i] = "name" /\ rec.e[i] # JStr("Unnamed")

\* the record has a name field whose value is not "Unnamed" and is not
\* empty either: no empty string, no null, no zero, no false
HasRealName(rec) ==
    \E i \in 1..Len(rec.ks) :
        /\ rec.ks[i] = "name"
        /\ rec.e[i] \notin {JStr("Unnamed"), JStr(""), JNull, JNum(0), JBool(FALSE),
                            JList(<<>>), JMap(<<>>, <<>>)}

\* C24 as claimed: the named filter keeps, in order, exactly the records
\* that have a name field not equal to "Unnamed", the empty string as name
\* included.
C24_KeepsEveryPresentName ==
    Filtered =>
        /\ probe.out.exc = "none"
        /\ probe.out.value = SelectSeq(probe.arg, HasOtherName)

\* C24: the named filter keeps, in order, exactly the records whose name
\* field is present, is not empty (no empty string, no null) and is not
\* "Unnamed"; a record whose name is the empty string is dropped like one
\* without a name.
C24_KeepsNonEmptyNames ==
    Filtered =>
        /\ probe.out.exc = "none"
        /\ probe.out.value = SelectSeq(probe.arg, HasRealName)

C24_Witness ==
    /\ Filtered
    /\ probe.arg = <<RecEmptyName, RecRun, RecUnnamed>>
    /\ probe.out.value = <<RecRun>>

\* the projection of the first sequence-valued value of the mapping v
FirstSequenceProjection(v) == MappingElements(FirstSequenceValue(v).e)

\* C25: a mapping payload that has a sequence-valued value projects to the
\* mapping-typed elements of the first such value also when there are none
\* of them (the projection is then the empty sequence); the marker rule
\* never turns such a payload into a single record.
C25_EmptySequenceStaysEmpty ==
    Parsed /\ probe.arg.t = "map" /\ HasSequenceValue(probe.arg) =>
        /\ FirstSequenceProjection(probe.arg) = <<>> => probe.out = <<>>
        /\ probe.out # <<probe.arg>>

\* the named records of the backfill result of call c: those of a list
\* result, in its order; a result that is no list has none
BackfillNamed(c) ==
    IF calls[c].results[2].t = "list"
    THEN SelectSeq(calls[c].results[2].e, HasRealName)
    ELSE <<>>

\* C26: when get_activities has run a backfill round and returns, its
\* records are the first limit elements of the named records of the primary
\* result followed by the named records of the backfill result, both in
\* response order: every named primary record stays in front and a record
\* that comes twice is kept twice.
C26_PrimaryThenBackfill ==
    \A c \in Calls :
        IsActivities(c) /\ IsDone(c) /\ calls[c].exc = "none" /\ Answered(c, 2) =>
            LET primary == PrimaryNamed(c)
            IN  /\ calls[c].activities = Take(primary \o BackfillNamed(c), calls[c].limit)
                /\ Len(primary) <= Len(calls[c].activities)
                /\ SubSeq(calls[c].activities, 1, Len(primary)) = primary
                /\ calls[c].ret = _format_activities_response(
                       calls[c].activities, calls[c].athlete_id, FALSE)

C26_Witness ==
    \E c \in Calls :
        /\ IsActivities(c) /\ IsDone(c) /\ Answered(c, 2)
        /\ calls[c].limit = 2
        /\ PrimaryNamed(c) = <<RecRide>>
        /\ BackfillNamed(c) = <<RecRide>>
        /\ calls[c].activities = <<RecRide, RecRide>>

\* the day number of the date text of an oldest or newest parameter
ParamDay(p) == fromisoformat(p[1])

\* C27: the backfill GET asks for the window from 60 days before to 1 day
\* before the oldest day D of the primary GET, so the window ends strictly
\* before D and shares no day with the primary window; it goes to the same
\* URL (the same athlete id) with the same credentials as the primary GET.
C27_BackfillWindowBeforePrimary ==
    \A c \in Calls :
        IsActivities(c) /\ Len(calls[c].requests) = 2 =>
            LET primary == calls[c].requests[1]
                backfill == calls[c].requests[2]
                D == ParamDay(primary.params.oldest)
                oldest == ParamDay(backfill.params.oldest)
                newest == ParamDay(backfill.params.newest)
            IN  /\ primary.params.oldest = Some(calls[c].start_date)
                /\ newest = D - 1
                /\ oldest = D - 60
                /\ oldest < newest
                /\ newest < D
                /\ backfill.url = primary.url
                /\ backfill.auth = primary.auth

C27_Witness ==
    \E c \in Calls :
        /\ IsActivities(c) /\ Len(calls[c].requests) = 2
        /\ calls[c].requests[1].params.oldest = Some(<<2024, 3, 2>>)
        /\ calls[c].requests[2].params.oldest = Some(<<2024, 1, 2>>)
        /\ calls[c].requests[2].params.newest = Some(<<2024, 3, 1>>)
        /\ calls[c].requests[2].url = "https://intervals.icu/api/v1/athlete/i7/activities"
        /\ calls[c].requests[2].auth = <<"API_KEY", "k2">>

\* C29: the primary GET of get_activities asks for limit * 3 records when
\* include_unnamed is false and for limit records when it is true; the
\* backfill GET, when there is one, asks for the same limit * 3.
C29_OverFetchLimits ==
    \A c \in Calls : \A k \in 1..Len(calls[c].requests) :
        IsActivities(c) =>
            calls[c].requests[k].params.limit =
                Some(IF k = 1 /\ calls[c].include_unnamed
                     THEN calls[c].limit
                     ELSE calls[c].limit * 3)

C29_Witness ==
    \E c \in Calls :
        /\ IsActivities(c) /\ Len(calls[c].requests) = 2
        /\ calls[c].limit = 2
        /\ calls[c].requests[1].params.limit = Some(6)
        /\ calls[c].requests[2].params.limit = Some(6)

\* the primary result of call c brought records, and fewer named ones than
\* limit, so that a backfill round is wanted
BackfillWanted(c) ==
    /\ ~calls[c].include_unnamed
    /\ Answered(c, 1)
    /\ ~IsErrorResult(calls[c].results[1])
    /\ _parse_activities_from_result(calls[c].results[1]) # <<>>
    /\ Len(PrimaryNamed(c)) < calls[c].limit

\* C28: when the window computed for the backfill round is empty, the round
\* is skipped: get_activities issues no second GET and returns the named
\* records of the primary result only.
C28_EmptyBackfillWindowSkipped ==
    \A c \in Calls :
        IsActivities(c) /\ calls[c].athlete_id # "" /\ EmptyBackfillWindow(c) =>
            /\ calls[c].start_date \in StartDates
            /\ Len(calls[c].requests) = 1
            /\ BackfillWanted(c) =>
                   /\ IsDone(c) /\ calls[c].exc = "none"
                   /\ calls[c].activities = PrimaryNamed(c)
                   /\ calls[c].ret = _format_activities_response(
                          PrimaryNamed(c), calls[c].athlete_id, FALSE)

C28_Witness ==
    \E c \in Calls :
        /\ IsActivities(c) /\ IsDone(c)
        /\ EmptyBackfillWindow(c) /\ BackfillWanted(c)
        /\ calls[c].start_date = <<1000, 1, 15>>
        /\ calls[c].limit = 2
        /\ calls[c].activities = <<RecRide>>
        /\ Len(calls[c].requests) = 1

\* the words a handler puts before the message of a mediator error
ErrorLead(tool) ==
    CASE tool = "get_activities" -> "Error fetching activities: "
      [] tool = "get_athlete" -> "Error fetching athlete data: "
      [] tool = "get_wellness_data" -> "Error fetching wellness data: "
      [] tool = "get_races" -> "Error fetching events: "
      [] OTHER -> "Error: "

\* call c returned the error string of its handler for its first result
ReportsError(c) ==
    /\ IsDone(c)
    /\ calls[c].ret = Str(ErrorLead(calls[c].tool)
                          \o PyStr(Get(calls[c].results[1], "message", JStr("Unknown error"))))

\* C30: a handler returns its "Error ...: {message}" string exactly when
\* make_intervals_request returned an error dict for a GET that failed; a
\* GET that succeeded is never reported as an error, whatever mapping its
\* payload is, one with a key "error" included.
C30_ErrorReportedIffRequestFailed ==
    \A c \in Calls :
        Answered(c, 1) => (ReportsError(c) <=> IsFailure(calls[c].outcomes[1]))

====
